---- MODULE Spec2Model ----
(***************************************************************************)
(* Model of plugins/sandbox-cleanup/scripts/sandbox-monitor.py: the hook   *)
(* process (main), its double fork (daemonize) and the detached monitor    *)
(* (find_bwrap_child, parse_artifacts, the exit wait, cleanup_artifacts),  *)
(* running against a process table and a filesystem that other processes   *)
(* change concurrently.                                                    *)
(*                                                                         *)
(* A Python str is modelled as a sequence of symbols.  A symbol is either  *)
(* one of the characters the shell tokenizer treats specially (space,      *)
(* single quote, double quote, backslash) or an indivisible run of         *)
(* ordinary characters ("--ro-bind", "/tmp/x", "echo", ...).  A list of    *)
(* str is a sequence of such sequences.  Python's None is the empty tuple  *)
(* and a value v that may be None is <<v>>.                                *)
(***************************************************************************)
EXTENDS Integers, Sequences, FiniteSets, TLC

VARIABLES
    pc,         \* position of each of the three processes of one invocation
    exitCode,   \* exit status of each process once it has exited
    did,        \* history: the <<process, operation>> pairs performed so far
    hook_input, \* main: what json.load(sys.stdin) produced
    settings,   \* what the settings files held when is_sandbox_enabled read them
    enabled,    \* main: result of is_sandbox_enabled()
    command,    \* main: the command fragment
    ppid,       \* main: result of get_ppid(os.getpid())
    existing,   \* main: children snapshot, the exclusion set
    log,        \* the records written to the log file, oldest first
    now,        \* time.monotonic(), in seconds since find_bwrap_child began
    deadline,   \* find_bwrap_child: deadline
    cands,      \* find_bwrap_child: children the for loop has yet to visit
    result,     \* find_bwrap_child: return value, <<>> or <<pid, cmdline>>
    cmdline,    \* monitor: the matched argument vector
    artifacts,  \* monitor: the parsed artifact list
    idx,        \* cleanup_artifacts: index of the artifact being processed
    st,         \* cleanup_artifacts: the lstat result of the current artifact
    removed,    \* cleanup_artifacts: removed
    procs,      \* the process table: the children of the claude process
    fs,         \* the filesystem: what is at each path
    seen,       \* history: what cleanup met and did at each artifact
    appeared,   \* history: whether a child find_bwrap_child could return was
                \* in the table during the call: "no", "before" the deadline
                \* or only "late", at or after it
    other,      \* a second monitor running cleanup_artifacts beside this one:
                \* its position, list, locals and history, and the filesystem
                \* the two began with
    evalpc,     \* run_evaluation: position
    output_file,            \* run_evaluation: whether a JSONL file was asked for
    jsonl,                  \* ResponseStreamLogger: the lines written so far
    timeout_turns,          \* ResponseStreamSkillActivationChecker.timeout_turns
    interrupt,              \* ResponseStreamSkillActivationChecker.interrupt: whether
                            \* a callback was given
    turn_count,             \* ResponseStreamSkillActivationChecker.turn_count
    skill_activated,        \* ResponseStreamSkillActivationChecker.skill_activated
    timed_out,              \* ResponseStreamSkillActivationChecker._timed_out
    executed_successfully,  \* run_evaluation: executed_successfully
    returned,   \* run_evaluation: the value returned, None until it returns
    pulled,     \* history: the messages the SDK stream produced, oldest first
    yielded,    \* history: the messages the checker handed on, oldest first
    interrupts  \* history: who called client.interrupt(), oldest first

vars == <<pc, exitCode, did, hook_input, settings, enabled, command, ppid, existing,
          log, now, deadline, cands, result, cmdline, artifacts, idx, st,
          removed, procs, fs, seen, appeared, other, evalpc, output_file, jsonl,
          timeout_turns, interrupt, turn_count, skill_activated, timed_out,
          executed_successfully, returned, pulled, yielded, interrupts>>

None == <<>>

(***************************************************************************)
(* Strings.                                                                *)
(***************************************************************************)
SP == " "
SQ == "'"
DQ == "\""
BS == "\\"

\* " ".join(xs)
RECURSIVE Join(_)
Join(xs) ==
    IF xs = <<>> THEN <<>>
    ELSE IF Len(xs) = 1 THEN xs[1]
    ELSE xs[1] \o <<SP>> \o Join(Tail(xs))

\* Python's `needle in hay` on str
Contains(hay, needle) ==
    \E k \in 0..(Len(hay) - Len(needle)) :
        SubSeq(hay, k + 1, k + Len(needle)) = needle

(***************************************************************************)
(* shlex.split(s): the POSIX-mode tokenizer of the standard library with   *)
(* whitespace_split on and no comment characters.  state is " " between    *)
(* words, "a" inside a word, a quote character inside quotes and the       *)
(* backslash right after an escape.  The value is <<>> for ValueError      *)
(* (no closing quotation, no escaped character) and <<tokens>> otherwise.  *)
(***************************************************************************)
RECURSIVE read_token(_, _, _, _, _, _, _)
read_token(s, i, state, escapedstate, token, quoted, out) ==
    LET eof  == i > Len(s)
        c    == IF eof THEN "" ELSE s[i]
        emit == IF token # <<>> \/ quoted THEN Append(out, token) ELSE out
    IN
    IF state = SP THEN
        IF eof THEN <<out>>
        ELSE IF c = SP THEN read_token(s, i + 1, SP, escapedstate, <<>>, FALSE, out)
        ELSE IF c = BS THEN read_token(s, i + 1, BS, "a", <<>>, FALSE, out)
        ELSE IF c \in {SQ, DQ} THEN read_token(s, i + 1, c, escapedstate, <<>>, FALSE, out)
        ELSE read_token(s, i + 1, "a", escapedstate, <<c>>, FALSE, out)
    ELSE IF state \in {SQ, DQ} THEN
        IF eof THEN <<>>
        ELSE IF c = state THEN read_token(s, i + 1, "a", escapedstate, token, TRUE, out)
        ELSE IF c = BS /\ state = DQ THEN read_token(s, i + 1, BS, state, token, TRUE, out)
        ELSE read_token(s, i + 1, state, escapedstate, Append(token, c), TRUE, out)
    ELSE IF state = BS THEN
        IF eof THEN <<>>
        ELSE IF escapedstate \in {SQ, DQ} /\ c # BS /\ c # escapedstate
             THEN read_token(s, i + 1, escapedstate, escapedstate,
                             token \o <<BS, c>>, quoted, out)
             ELSE read_token(s, i + 1, escapedstate, escapedstate,
                             Append(token, c), quoted, out)
    ELSE \* state = "a"
        IF eof THEN <<emit>>
        ELSE IF c = SP THEN read_token(s, i + 1, SP, escapedstate, <<>>, FALSE, emit)
        ELSE IF c \in {SQ, DQ} THEN read_token(s, i + 1, c, escapedstate, token, quoted, out)
        ELSE IF c = BS THEN read_token(s, i + 1, BS, "a", token, quoted, out)
        ELSE read_token(s, i + 1, "a", escapedstate, Append(token, c), quoted, out)

shlex_split(s) == read_token(s, 1, SP, SP, <<>>, FALSE, <<>>)

(***************************************************************************)
(* parse_artifacts.                                                        *)
(***************************************************************************)
RO_BIND  == <<"--ro-bind">>
DEV_NULL == <<"/dev/null">>

\* pathlib.Path(text): the empty text is the current directory, any other
\* text of the model's alphabet names the path it spells
Path(text) == IF text = <<>> THEN <<".">> ELSE text

\* scan_args with `i += 1` after a match as well
RECURSIVE scan_args_step1(_, _, _)
scan_args_step1(args, i, acc) ==
    IF ~(i < Len(args) - 1) THEN acc
    ELSE IF args[i] = RO_BIND /\ args[i + 1] = DEV_NULL
         THEN scan_args_step1(args, i + 1, Append(acc, Path(args[i + 2])))
         ELSE scan_args_step1(args, i + 1, acc)

\* the while loop of parse_artifacts, from index i on
RECURSIVE scan_args(_, _, _)
scan_args(args, i, acc) ==
    IF ~(i < Len(args) - 1) THEN acc
    ELSE IF args[i] = RO_BIND /\ args[i + 1] = DEV_NULL
         THEN scan_args(args, i + 3, Append(acc, Path(args[i + 2])))
         ELSE scan_args(args, i + 1, acc)

\* parse_artifacts reading the last element, whatever the length
parse_artifacts_last(cl) ==
    IF Len(cl) < 1 THEN <<>>
    ELSE LET args == shlex_split(cl[Len(cl)])
         IN IF args = <<>> THEN <<>>
            ELSE scan_args(args[1], 1, <<>>)

\* parse_artifacts(cmdline)
parse_artifacts(cl) ==
    IF Len(cl) < 4 THEN <<>>
    ELSE LET args == shlex_split(cl[4])
         IN IF args = <<>> THEN <<>>            \* except ValueError
            ELSE scan_args(args[1], 1, <<>>)

(***************************************************************************)
(* JSON values, as json.load returns them.                                 *)
(***************************************************************************)
JNull      == <<"null">>
JBool(b)   == <<"bool", b>>
JNum(n)    == <<"num", n>>
JStr(s)    == <<"str", s>>
JList(xs)  == <<"list", xs>>
JObj(f)    == <<"obj", f>>
\* the fields f of an object are a record over the keys the program looks
\* up; a key the object does not have is Absent
Absent     == <<"absent">>

IsObj(v) == v[1] = "obj"
IsStr(v) == v[1] = "str"
HasKey(v, k) == k \in DOMAIN v[2] /\ v[2][k] # Absent

\* bool(v)
Truthy(v) ==
    CASE v[1] = "null" -> FALSE
      [] v[1] = "bool" -> v[2]
      [] v[1] = "num"  -> v[2] # 0
      [] v[1] = "str"  -> v[2] # <<>>
      [] v[1] = "list" -> v[2] # <<>>
      [] v[1] = "obj"  -> \E k \in DOMAIN v[2] : v[2][k] # Absent

(***************************************************************************)
(* The universes the environment draws from.                               *)
(***************************************************************************)
FIND_CHILD_TIMEOUT_S == 5

CLAUDE_PID == 100

\* how many children the claude process has over a run
NumChildren == 2
PIDS == 101..(100 + NumChildren)

Procs == {"original", "intermediate", "grandchild"}

ECHO_HI == <<"echo", SP, "hi">>
LS      == <<"ls">>
Fragments == {ECHO_HI}

TMP_X == <<"/tmp/x">>
TMP_Y == <<"/tmp/y">>
FsPaths == {TMP_X, TMP_Y}

\* [zsh, -c, -l, "bwrap --ro-bind /dev/null /tmp/x --ro-bind /dev/null /tmp/y eval 'echo hi'"]
CL_ZSH ==
    << <<"zsh">>, <<"-c">>, <<"-l">>,
       <<"bwrap", SP, "--ro-bind", SP, "/dev/null", SP, "/tmp/x", SP,
         "--ro-bind", SP, "/dev/null", SP, "/tmp/y", SP,
         "eval", SP, SQ, "echo", SP, "hi", SQ>> >>
\* the same process once zsh has exec'ed bwrap
CL_BWRAP ==
    << <<"bwrap">>, <<"--ro-bind">>, <<"/dev/null">>, <<"/tmp/x">>,
       <<"--ro-bind">>, <<"/dev/null">>, <<"/tmp/y">>,
       <<"eval">>, <<"echo">>, <<"hi">> >>
\* [zsh, -c, -l, "bwrap --ro-bind /dev/null /tmp/y ls"]
CL_LS ==
    << <<"zsh">>, <<"-c">>, <<"-l">>,
       <<"bwrap", SP, "--ro-bind", SP, "/dev/null", SP, "/tmp/y", SP, "ls">> >>
\* [zsh, -c, -l, "eval 'bwrap --ro-bind /dev/null /tmp/x echo hi'"]
CL_QUOTED ==
    << <<"zsh">>, <<"-c">>, <<"-l">>,
       <<"eval", SP, SQ, "bwrap", SP, "--ro-bind", SP, "/dev/null", SP,
         "/tmp/x", SP, "echo", SP, "hi", SQ>> >>

Cmdlines == {CL_ZSH, CL_BWRAP, CL_LS, CL_QUOTED}

\* an entry of the process table
NoProc     == [st |-> "none",    cl |-> <<>>]
Zombie     == [st |-> "zombie",  cl |-> <<>>]
Running(c) == [st |-> "running", cl |-> c]

\* what lstat can find at a path
Missing == [kind |-> "missing", size |-> 0]
File0   == [kind |-> "file",    size |-> 0]
File1   == [kind |-> "file",    size |-> 1]
Dir     == [kind |-> "dir",     size |-> 1]
Symlink == [kind |-> "symlink", size |-> 1]
Fifo    == [kind |-> "other",   size |-> 0]
FileStates == {Missing, File0, File1, Dir, Symlink, Fifo}

\* the file at path p; /dev/null is a device and every path outside FsPaths is absent
FileAt(p) ==
    IF p \in FsPaths THEN fs[p]
    ELSE IF p = DEV_NULL THEN Fifo ELSE Missing

(***************************************************************************)
(* /proc helpers.                                                          *)
(***************************************************************************)
\* get_children(pid) for the claude process: its live and zombie children
get_children(pid) ==
    IF pid = CLAUDE_PID
    THEN {c \in PIDS : procs[c].st \in {"running", "zombie"}}
    ELSE {}

\* get_cmdline(pid): empty for a zombie and for a process that is gone
get_cmdline(pid) ==
    IF pid \in PIDS /\ procs[pid].st = "running" THEN procs[pid].cl ELSE <<>>

\* pid_alive(pid): /proc/<pid> exists until the process has been reaped
pid_alive(pid) == pid \in PIDS /\ procs[pid].st \in {"running", "zombie"}

(***************************************************************************)
(* is_sandbox_enabled over the contents of the settings files, in order.   *)
(* A source is OSError (unreadable), JSONDecodeError (text that is not      *)
(* JSON), UnicodeDecodeError (bytes that are not text) or a JSON value.     *)
(***************************************************************************)
OSError            == <<"OSError">>
JSONDecodeError    == <<"JSONDecodeError">>
\* raised by p.read_text(); a ValueError that the except clause does not name
UnicodeDecodeError == <<"UnicodeDecodeError">>

\* one iteration of the for loop: the new value of enabled, or the
\* exception that leaves the loop
settings_step(en, src) ==
    IF src = UnicodeDecodeError THEN UnicodeDecodeError
    ELSE IF src \in {OSError, JSONDecodeError} THEN en
    ELSE IF ~IsObj(src) THEN en                 \* no such key, or TypeError
    ELSE IF ~HasKey(src, "sandbox") THEN en
    ELSE LET sb == src[2]["sandbox"]
         IN IF ~IsObj(sb) THEN en               \* TypeError, or no such key
            ELSE IF ~HasKey(sb, "enabled") THEN en
            ELSE sb[2]["enabled"]

RECURSIVE settings_loop(_, _)
settings_loop(en, srcs) ==
    IF srcs = <<>> \/ en = UnicodeDecodeError THEN en
    ELSE settings_loop(settings_step(en, Head(srcs)), Tail(srcs))

is_sandbox_enabled(srcs) == settings_loop(JBool(FALSE), srcs)

SettingsFile ==
    { OSError, JSONDecodeError, UnicodeDecodeError, JNull,
      JObj([sandbox |-> Absent]),
      JObj([sandbox |-> JNull]),
      JObj([sandbox |-> JObj([enabled |-> Absent])]),
      JObj([sandbox |-> JObj([enabled |-> JBool(TRUE)])]),
      JObj([sandbox |-> JObj([enabled |-> JBool(FALSE)])]) }

\* two files without CLAUDE_PROJECT_DIR, four with it
SettingsSources == [1..2 -> SettingsFile] \cup [1..4 -> SettingsFile]

(***************************************************************************)
(* What can arrive on standard input.                                      *)
(***************************************************************************)
HookObj(ti)  == JObj([tool_input |-> ti])
ToolInput(c) == JObj([command |-> c])

StdinContents ==
    { JSONDecodeError,                           \* empty or unparseable text
      JList(<<>>),                               \* a non-object top level
      HookObj(Absent),
      HookObj(JStr(LS)),                         \* a non-object tool_input
      HookObj(ToolInput(Absent)),
      HookObj(ToolInput(JStr(<<>>))),
      HookObj(ToolInput(JNum(7))) }
    \cup { HookObj(ToolInput(JStr(f))) : f \in Fragments }

(***************************************************************************)
(* Control flow and history.                                               *)
(***************************************************************************)
mainVars  == <<hook_input, settings, enabled, command, ppid, existing>>
evalVars  == <<evalpc, output_file, jsonl, timeout_turns, interrupt, turn_count,
               skill_activated, timed_out, executed_successfully, returned,
               pulled, yielded, interrupts>>
\* what runs apart from one invocation of the hook
apartVars == <<other, evalVars>>
findVars  == <<now, deadline, cands, result, appeared>>
cleanVars == <<idx, st, removed, seen>>
\* one invocation of the hook and the process table it reads
selfVars  == <<pc, exitCode, did, mainVars, log, findVars, cmdline, artifacts,
               cleanVars, procs>>

Goto(p, label) ==
    /\ pc' = [pc EXCEPT ![p] = label]
    /\ UNCHANGED exitCode

\* sys.exit(code), the end of main, or an uncaught exception (code 1)
Exit(p, code) ==
    /\ pc' = [pc EXCEPT ![p] = "exited"]
    /\ exitCode' = [exitCode EXCEPT ![p] = code]

Did(p, ops) == did' = did \cup {<<p, op>> : op \in ops}

LogRec(level, msg, args) == [level |-> level, msg |-> msg, args |-> args]

(***************************************************************************)
(* main, in the originally invoked process.                                *)
(***************************************************************************)
\* hook_input = json.load(sys.stdin)
MainReadInput ==
    /\ pc["original"] = "main"
    /\ \E inp \in StdinContents :
        /\ hook_input' = inp
        /\ IF inp = JSONDecodeError
           THEN Exit("original", 0)
           ELSE Goto("original", "main_enabled")
    /\ Did("original", {"read_input"})
    /\ UNCHANGED <<apartVars, settings, enabled, command, ppid, existing, log, findVars, cmdline,
                   artifacts, cleanVars, procs, fs>>

\* MainCheckEnabled without the exit
MainCheckEnabled_ignored ==
    /\ pc["original"] = "main_enabled"
    /\ \E srcs \in SettingsSources :
        LET r == is_sandbox_enabled(srcs) IN
        /\ settings' = srcs
        /\ IF r = UnicodeDecodeError
           THEN Exit("original", 1) /\ UNCHANGED <<enabled, did>>
           ELSE /\ enabled' = r
                /\ Goto("original", "main_command")
                /\ Did("original", {"read_settings"})
    /\ UNCHANGED <<apartVars, hook_input, command, ppid, existing, log, findVars, cmdline,
                   artifacts, cleanVars, procs, fs>>

\* if not is_sandbox_enabled(): sys.exit(0).  An exception that leaves
\* is_sandbox_enabled leaves main: traceback, exit status 1.
MainCheckEnabled ==
    /\ pc["original"] = "main_enabled"
    /\ \E srcs \in SettingsSources :
        LET r == is_sandbox_enabled(srcs) IN
        /\ settings' = srcs
        /\ IF r = UnicodeDecodeError
           THEN Exit("original", 1) /\ UNCHANGED <<enabled, did>>
           ELSE /\ enabled' = r
                /\ IF ~Truthy(r)
                   THEN Exit("original", 0)
                   ELSE Goto("original", "main_command")
                /\ Did("original", {"read_settings"})
    /\ UNCHANGED <<apartVars, hook_input, command, ppid, existing, log, findVars, cmdline,
                   artifacts, cleanVars, procs, fs>>

\* MainCommand without `if not command: sys.exit(0)`
MainCommand_nocheck ==
    /\ pc["original"] = "main_command"
    /\ settings' = <<>>
    /\ IF ~IsObj(hook_input)
       THEN Exit("original", 1) /\ UNCHANGED command
       ELSE LET ti == IF HasKey(hook_input, "tool_input")
                      THEN hook_input[2]["tool_input"]
                      ELSE ToolInput(Absent)
            IN IF ~IsObj(ti)
               THEN Exit("original", 1) /\ UNCHANGED command
               ELSE /\ command' = IF HasKey(ti, "command")
                                  THEN ti[2]["command"] ELSE JStr(<<>>)
                    /\ Goto("original", "main_ppid")
    /\ UNCHANGED <<apartVars, did, hook_input, enabled, ppid, existing, log, findVars,
                   cmdline, artifacts, cleanVars, procs, fs>>

\* command = hook_input.get("tool_input", {}).get("command", "").  The
\* settings files are not read again: the record of what they held is dropped.
MainCommand ==
    /\ pc["original"] = "main_command"
    /\ settings' = <<>>
    /\ IF ~IsObj(hook_input)
       THEN Exit("original", 1) /\ UNCHANGED command       \* AttributeError
       ELSE LET ti == IF HasKey(hook_input, "tool_input")
                      THEN hook_input[2]["tool_input"]
                      ELSE ToolInput(Absent)
            IN IF ~IsObj(ti)
               THEN Exit("original", 1) /\ UNCHANGED command   \* AttributeError
               ELSE /\ command' = IF HasKey(ti, "command")
                                  THEN ti[2]["command"] ELSE JStr(<<>>)
                    /\ IF ~Truthy(command')
                       THEN Exit("original", 0)
                       ELSE Goto("original", "main_ppid")
    /\ UNCHANGED <<apartVars, did, hook_input, enabled, ppid, existing, log, findVars,
                   cmdline, artifacts, cleanVars, procs, fs>>

\* MainGetPpid going on to daemonize without taking the snapshot
MainGetPpid_nosnapshot ==
    /\ pc["original"] = "main_ppid"
    /\ \E r \in {None, <<0>>, <<1>>, <<CLAUDE_PID>>} :
        /\ ppid' = r
        /\ IF r = None \/ r[1] <= 1
           THEN Exit("original", 0)
           ELSE Goto("original", "daemonize")
    /\ Did("original", {"get_ppid"})
    /\ UNCHANGED <<apartVars, hook_input, settings, enabled, command, existing, log, findVars,
                   cmdline, artifacts, cleanVars, procs, fs>>

\* ppid = get_ppid(os.getpid()): None when /proc cannot be read, 0 for a
\* parent outside the namespace, 1 once re-parented to init
MainGetPpid ==
    /\ pc["original"] = "main_ppid"
    /\ \E r \in {None, <<0>>, <<1>>, <<CLAUDE_PID>>} :
        /\ ppid' = r
        /\ IF r = None \/ r[1] <= 1
           THEN Exit("original", 0)
           ELSE Goto("original", "main_snapshot")
    /\ Did("original", {"get_ppid"})
    /\ UNCHANGED <<apartVars, hook_input, settings, enabled, command, existing, log, findVars,
                   cmdline, artifacts, cleanVars, procs, fs>>

\* existing = get_children(ppid)
MainSnapshot ==
    /\ pc["original"] = "main_snapshot"
    /\ existing' = get_children(ppid[1])
    /\ Goto("original", "daemonize")
    /\ Did("original", {"get_children"})
    /\ UNCHANGED <<apartVars, hook_input, settings, enabled, command, ppid, log, findVars, cmdline,
                   artifacts, cleanVars, procs, fs>>

(***************************************************************************)
(* daemonize.                                                              *)
(***************************************************************************)
\* DaemonizeFork1 with the parent waiting for its child instead of returning
DaemonizeFork1_waits ==
    /\ pc["original"] = "daemonize"
    /\ pc' = [pc EXCEPT !["original"] = "waitpid",
                        !["intermediate"] = "daemonize_setsid"]
    /\ UNCHANGED exitCode
    /\ Did("original", {"fork"})
    /\ UNCHANGED <<apartVars, mainVars, log, findVars, cmdline, artifacts, cleanVars,
                   procs, fs>>

\* the first fork: the parent returns False and main exits, the child goes on
DaemonizeFork1 ==
    /\ pc["original"] = "daemonize"
    /\ pc' = [pc EXCEPT !["original"] = "exited",
                        !["intermediate"] = "daemonize_setsid"]
    /\ exitCode' = [exitCode EXCEPT !["original"] = 0]
    /\ Did("original", {"fork", "daemonize_false"})
    /\ UNCHANGED <<apartVars, mainVars, log, findVars, cmdline, artifacts, cleanVars,
                   procs, fs>>

\* DaemonizeFork2 without os._exit(0): the parent goes on like the child
DaemonizeFork2_noexit ==
    /\ pc["intermediate"] = "daemonize_setsid"
    /\ pc' = [pc EXCEPT !["intermediate"] = "daemonize_redirect",
                        !["grandchild"] = "daemonize_redirect"]
    /\ UNCHANGED exitCode
    /\ Did("intermediate", {"setsid", "fork"})
    /\ UNCHANGED <<apartVars, mainVars, log, findVars, cmdline, artifacts, cleanVars,
                   procs, fs>>

\* setsid and the second fork: the parent leaves through os._exit(0)
DaemonizeFork2 ==
    /\ pc["intermediate"] = "daemonize_setsid"
    /\ pc' = [pc EXCEPT !["intermediate"] = "exited",
                        !["grandchild"] = "daemonize_redirect"]
    /\ exitCode' = [exitCode EXCEPT !["intermediate"] = 0]
    /\ Did("intermediate", {"setsid", "fork"})
    /\ UNCHANGED <<apartVars, mainVars, log, findVars, cmdline, artifacts, cleanVars,
                   procs, fs>>

\* the grandchild redirects its standard streams and returns True; main
\* sets up logging and calls monitor, which logs its first record
DaemonStart ==
    /\ pc["grandchild"] = "daemonize_redirect"
    /\ Goto("grandchild", "find_bwrap_child")
    /\ log' = Append(log, LogRec("info", "monitor", <<ppid[1], command>>))
    /\ Did("grandchild", {"redirect", "daemonize_true", "log"})
    /\ UNCHANGED <<apartVars, mainVars, findVars, cmdline, artifacts, cleanVars,
                   procs, fs>>

(***************************************************************************)
(* find_bwrap_child, in the detached process.                              *)
(***************************************************************************)
\* the test of the scan on one argument vector
matches(cl, cmd) == cl # <<>> /\ Contains(Join(cl), cmd[2])

\* a child the scan would return is in the table
MatchIn(table) ==
    \E pid \in PIDS \ existing :
        table[pid].st = "running" /\ IsStr(command) /\ matches(table[pid].cl, command)

InCall == pc["grandchild"] \in {"find_while", "find_children", "find_for"}

\* the new value of appeared, given the table, whether the call is running
\* and whether the deadline is still ahead
Appearance(a, table, inCall, early) ==
    IF inCall /\ MatchIn(table)
    THEN IF early \/ a = "before" THEN "before" ELSE "late"
    ELSE a

\* deadline = time.monotonic() + FIND_CHILD_TIMEOUT_S
FindDeadline ==
    /\ pc["grandchild"] = "find_bwrap_child"
    /\ deadline' = now + FIND_CHILD_TIMEOUT_S
    /\ Goto("grandchild", "find_while")
    /\ Did("grandchild", {"clock"})
    /\ appeared' = Appearance("no", procs, TRUE, TRUE)
    /\ UNCHANGED <<apartVars, mainVars, log, now, cands, result, cmdline, artifacts,
                   cleanVars, procs, fs>>

\* FindWhile as `while True`
FindWhile_forever ==
    /\ pc["grandchild"] = "find_while"
    /\ Goto("grandchild", "find_children")
    /\ Did("grandchild", {"clock"})
    /\ UNCHANGED <<apartVars, mainVars, log, findVars, cmdline, artifacts, cleanVars,
                   procs, fs>>

\* while time.monotonic() < deadline: ... return None
FindWhile ==
    /\ pc["grandchild"] = "find_while"
    /\ IF now < deadline
       THEN Goto("grandchild", "find_children") /\ UNCHANGED result
       ELSE Goto("grandchild", "find_return") /\ result' = None
    /\ Did("grandchild", {"clock"})
    /\ UNCHANGED <<apartVars, mainVars, log, now, deadline, cands, appeared, cmdline,
                   artifacts, cleanVars, procs, fs>>

\* candidates without the subtraction of the snapshot
candidates_all(claude_pid, excl) == get_children(claude_pid)

\* the candidates of one scan
candidates(claude_pid, excl) == get_children(claude_pid) \ excl

\* for pid in get_children(claude_pid) - existing
FindChildren ==
    /\ pc["grandchild"] = "find_children"
    /\ cands' = candidates(ppid[1], existing)
    /\ Goto("grandchild", "find_for")
    /\ Did("grandchild", {"get_children"})
    /\ UNCHANGED <<apartVars, mainVars, log, now, deadline, result, appeared, cmdline,
                   artifacts, cleanVars, procs, fs>>

\* FindFor with a get_cmdline that raises for a process it cannot read
FindFor_raises ==
    /\ pc["grandchild"] = "find_for"
    /\ IF cands = {}
       THEN /\ Goto("grandchild", "find_while")
            /\ UNCHANGED <<did, log, cands, result>>
       ELSE \E pid \in cands :
            LET cl == get_cmdline(pid) IN
            /\ cands' = cands \ {pid}
            /\ Did("grandchild", {"get_cmdline"})
            /\ IF cl = <<>> \/ ~IsStr(command)
               THEN /\ Exit("grandchild", 0)
                    /\ log' = Append(log, LogRec("error", "crash", <<>>))
                    /\ UNCHANGED result
               ELSE IF matches(cl, command)
               THEN /\ result' = <<pid, cl>>
                    /\ Goto("grandchild", "find_return")
                    /\ UNCHANGED log
               ELSE Goto("grandchild", "find_for") /\ UNCHANGED <<log, result>>
    /\ UNCHANGED <<apartVars, mainVars, now, deadline, appeared, cmdline, artifacts,
                   cleanVars, procs, fs>>

\* one iteration of the for loop, in whatever order the set yields its
\* members; time.sleep(FIND_CHILD_POLL_S) once the set is exhausted
FindFor ==
    /\ pc["grandchild"] = "find_for"
    /\ IF cands = {}
       THEN /\ Goto("grandchild", "find_while")
            /\ UNCHANGED <<did, log, cands, result>>
       ELSE \E pid \in cands :
            LET cl == get_cmdline(pid) IN
            /\ cands' = cands \ {pid}
            /\ Did("grandchild", {"get_cmdline"})
            /\ IF cl = <<>>
               THEN Goto("grandchild", "find_for") /\ UNCHANGED <<log, result>>
               ELSE IF ~IsStr(command)
               THEN \* TypeError, caught and logged by main
                    /\ Exit("grandchild", 0)
                    /\ log' = Append(log, LogRec("error", "crash", <<>>))
                    /\ UNCHANGED result
               ELSE IF matches(cl, command)
               THEN /\ result' = <<pid, cl>>
                    /\ Goto("grandchild", "find_return")
                    /\ UNCHANGED log
               ELSE Goto("grandchild", "find_for") /\ UNCHANGED <<log, result>>
    /\ UNCHANGED <<apartVars, mainVars, now, deadline, appeared, cmdline, artifacts,
                   cleanVars, procs, fs>>

(***************************************************************************)
(* monitor.                                                                *)
(***************************************************************************)
\* MonitorResult returning on None without the warning
MonitorResult_silent ==
    /\ pc["grandchild"] = "find_return"
    /\ IF result = None
       THEN /\ Exit("grandchild", 0)
            /\ UNCHANGED <<cmdline, log>>
       ELSE /\ cmdline' = result[2]
            /\ log' = Append(log, LogRec("info", "found", <<result[1]>>))
            /\ Goto("grandchild", "monitor_parse")
    /\ Did("grandchild", {"log"})
    /\ now' = 0
    /\ deadline' = 0
    /\ cands' = {}
    /\ appeared' = "no"
    /\ UNCHANGED <<apartVars, mainVars, result, artifacts, cleanVars, procs, fs>>

\* if result is None: warn and return; else unpack and log the pid.  The
\* call is over: its locals, its clock and the record of what was in the
\* table during it are dropped.
MonitorResult ==
    /\ pc["grandchild"] = "find_return"
    /\ IF result = None
       THEN /\ log' = Append(log, LogRec("warning", "timeout", <<>>))
            /\ Exit("grandchild", 0)
            /\ UNCHANGED cmdline
       ELSE /\ cmdline' = result[2]
            /\ log' = Append(log, LogRec("info", "found", <<result[1]>>))
            /\ Goto("grandchild", "monitor_parse")
    /\ Did("grandchild", {"log"})
    /\ now' = 0
    /\ deadline' = 0
    /\ cands' = {}
    /\ appeared' = "no"
    /\ UNCHANGED <<apartVars, mainVars, result, artifacts, cleanVars, procs, fs>>

\* MonitorParse reading the argument vector of the matched pid again
MonitorParse_rereads ==
    /\ pc["grandchild"] = "monitor_parse"
    /\ artifacts' = parse_artifacts(get_cmdline(result[1]))
    /\ IF artifacts' = <<>>
       THEN /\ log' = Append(log, LogRec("info", "no artifacts", <<>>))
            /\ Exit("grandchild", 0)
       ELSE /\ log' = Append(log, LogRec("info", "tracking", <<Len(artifacts')>>))
            /\ Goto("grandchild", "wait")
    /\ Did("grandchild", {"log"})
    /\ UNCHANGED <<apartVars, mainVars, findVars, cmdline, cleanVars, procs, fs>>

\* MonitorParse without `if not artifacts: return`
MonitorParse_tracks_none ==
    /\ pc["grandchild"] = "monitor_parse"
    /\ artifacts' = parse_artifacts(cmdline)
    /\ log' = Append(log, LogRec("info", "tracking", <<Len(artifacts')>>))
    /\ Goto("grandchild", "wait")
    /\ Did("grandchild", {"log"})
    /\ UNCHANGED <<apartVars, mainVars, findVars, cmdline, cleanVars, procs, fs>>

\* artifacts = parse_artifacts(cmdline); return if there are none
MonitorParse ==
    /\ pc["grandchild"] = "monitor_parse"
    /\ artifacts' = parse_artifacts(cmdline)
    /\ IF artifacts' = <<>>
       THEN /\ log' = Append(log, LogRec("info", "no artifacts", <<>>))
            /\ Exit("grandchild", 0)
       ELSE /\ log' = Append(log, LogRec("info", "tracking", <<Len(artifacts')>>))
            /\ Goto("grandchild", "wait")
    /\ Did("grandchild", {"log"})
    /\ UNCHANGED <<apartVars, mainVars, findVars, cmdline, cleanVars, procs, fs>>

\* MonitorWait giving up on a process that is still alive
MonitorWait_gives_up ==
    /\ pc["grandchild"] = "wait"
    /\ IF pid_alive(result[1])
       THEN /\ Exit("grandchild", 0)
            /\ Did("grandchild", {"pid_alive", "sleep"})
            /\ UNCHANGED <<log, idx, removed>>
       ELSE /\ log' = Append(log, LogRec("info", "exited", <<result[1]>>))
            /\ Goto("grandchild", "cleanup_lstat")
            /\ Did("grandchild", {"pid_alive", "saw_exit", "log"})
            /\ idx' = 1
            /\ removed' = 0
    /\ UNCHANGED <<apartVars, mainVars, findVars, cmdline, artifacts, st, seen, procs, fs>>

\* MonitorWait with `if` for `while`: one poll, one sleep, then cleanup
MonitorWait_once ==
    /\ pc["grandchild"] = "wait"
    /\ IF pid_alive(result[1])
       THEN /\ log' = Append(log, LogRec("info", "exited", <<result[1]>>))
            /\ Goto("grandchild", "cleanup_lstat")
            /\ Did("grandchild", {"pid_alive", "sleep", "log"})
            /\ idx' = 1
            /\ removed' = 0
       ELSE /\ log' = Append(log, LogRec("info", "exited", <<result[1]>>))
            /\ Goto("grandchild", "cleanup_lstat")
            /\ Did("grandchild", {"pid_alive", "saw_exit", "log"})
            /\ idx' = 1
            /\ removed' = 0
    /\ UNCHANGED <<apartVars, mainVars, findVars, cmdline, artifacts, st, seen, procs, fs>>

\* while pid_alive(bwrap_pid): time.sleep(EXIT_POLL_S)
MonitorWait ==
    /\ pc["grandchild"] = "wait"
    /\ IF pid_alive(result[1])
       THEN /\ Goto("grandchild", "wait")
            /\ Did("grandchild", {"pid_alive", "sleep"})
            /\ UNCHANGED <<log, idx, removed>>
       ELSE /\ log' = Append(log, LogRec("info", "exited", <<result[1]>>))
            /\ Goto("grandchild", "cleanup_lstat")
            /\ Did("grandchild", {"pid_alive", "saw_exit", "log"})
            /\ idx' = 1
            /\ removed' = 0
    /\ UNCHANGED <<apartVars, mainVars, findVars, cmdline, artifacts, st, seen, procs, fs>>

(***************************************************************************)
(* cleanup_artifacts.                                                      *)
(***************************************************************************)
S_ISREG(s) == s.kind = "file"

\* is_placeholder without the size test
is_placeholder_anysize(s) == S_ISREG(s)

\* stat.S_ISREG(st.st_mode) and st.st_size == 0
is_placeholder(s) == S_ISREG(s) /\ s.size = 0

\* what cleanup met at one artifact: the file there when lstat ran, whether
\* lstat returned, the file there when unlink ran and how unlink ended
Seen(p, at, statok) ==
    [path |-> p, at |-> at, statok |-> statok, atUnlink |-> Missing,
     unlinked |-> "no"]

\* st = p.lstat() and the test on it; FileNotFoundError for a missing path,
\* and any path may fail with another OSError (no search permission)
CleanupLstat ==
    /\ pc["grandchild"] = "cleanup_lstat"
    /\ idx <= Len(artifacts)
    /\ LET p  == artifacts[idx]
           at == FileAt(p)
       IN \E err \in (IF at = Missing THEN {TRUE} ELSE BOOLEAN) :
            /\ seen' = Append(seen, Seen(p, at, ~err))
            /\ IF err
               THEN idx' = idx + 1 /\ UNCHANGED st /\ Goto("grandchild", "cleanup_lstat")
               ELSE /\ st' = at
                    /\ IF is_placeholder(at)
                       THEN UNCHANGED idx /\ Goto("grandchild", "cleanup_unlink")
                       ELSE idx' = idx + 1 /\ Goto("grandchild", "cleanup_lstat")
    /\ Did("grandchild", {"lstat"})
    /\ UNCHANGED <<apartVars, mainVars, log, findVars, cmdline, artifacts, removed,
                   procs, fs>>

\* CleanupUnlink with `removed += 1` ahead of the unlink
CleanupUnlink_countfirst ==
    /\ pc["grandchild"] = "cleanup_unlink"
    /\ LET p  == artifacts[idx]
           at == FileAt(p)
       IN \E err \in (IF at.kind \in {"missing", "dir"} THEN {TRUE} ELSE BOOLEAN) :
            /\ seen' = [seen EXCEPT ![Len(seen)] =
                          [@ EXCEPT !.atUnlink = at,
                                    !.unlinked = IF err THEN "err" ELSE "yes"]]
            /\ IF err THEN UNCHANGED fs ELSE fs' = [fs EXCEPT ![p] = Missing]
    /\ removed' = removed + 1
    /\ idx' = idx + 1
    /\ Goto("grandchild", "cleanup_lstat")
    /\ Did("grandchild", {"unlink"})
    /\ UNCHANGED <<apartVars, mainVars, log, findVars, cmdline, artifacts, st, procs>>

\* CleanupUnlink calling p.unlink(missing_ok=True): a path that is gone by
\* now raises nothing and is counted
CleanupUnlink_missing_ok ==
    /\ pc["grandchild"] = "cleanup_unlink"
    /\ LET p  == artifacts[idx]
           at == FileAt(p)
       IN \E err \in (IF at.kind = "dir" THEN {TRUE}
                      ELSE IF at.kind = "missing" THEN {FALSE} ELSE BOOLEAN) :
            /\ seen' = [seen EXCEPT ![Len(seen)] =
                          [@ EXCEPT !.atUnlink = at,
                                    !.unlinked = IF err THEN "err" ELSE "yes"]]
            /\ IF err
               THEN UNCHANGED <<fs, removed>>
               ELSE /\ fs' = [fs EXCEPT ![p] = Missing]
                    /\ removed' = removed + 1
    /\ idx' = idx + 1
    /\ Goto("grandchild", "cleanup_lstat")
    /\ Did("grandchild", {"unlink"})
    /\ UNCHANGED <<apartVars, mainVars, log, findVars, cmdline, artifacts, st, procs>>

\* CleanupUnlink removing every empty regular file beside the artifact too
CleanupUnlink_sweeps ==
    /\ pc["grandchild"] = "cleanup_unlink"
    /\ LET p  == artifacts[idx]
           at == FileAt(p)
       IN \E err \in (IF at.kind \in {"missing", "dir"} THEN {TRUE} ELSE BOOLEAN) :
            /\ seen' = [seen EXCEPT ![Len(seen)] =
                          [@ EXCEPT !.atUnlink = at,
                                    !.unlinked = IF err THEN "err" ELSE "yes"]]
            /\ IF err
               THEN UNCHANGED <<fs, removed>>
               ELSE /\ fs' = [q \in FsPaths |->
                                IF q = p \/ is_placeholder(fs[q])
                                THEN Missing ELSE fs[q]]
                    /\ removed' = removed + 1
    /\ idx' = idx + 1
    /\ Goto("grandchild", "cleanup_lstat")
    /\ Did("grandchild", {"unlink"})
    /\ UNCHANGED <<apartVars, mainVars, log, findVars, cmdline, artifacts, st, procs>>

\* CleanupUnlink emptying the file where it should remove it
CleanupUnlink_truncates ==
    /\ pc["grandchild"] = "cleanup_unlink"
    /\ LET p  == artifacts[idx]
           at == FileAt(p)
       IN \E err \in (IF at.kind \in {"missing", "dir"} THEN {TRUE} ELSE BOOLEAN) :
            /\ seen' = [seen EXCEPT ![Len(seen)] =
                          [@ EXCEPT !.atUnlink = at,
                                    !.unlinked = IF err THEN "err" ELSE "yes"]]
            /\ IF err
               THEN UNCHANGED <<fs, removed>>
               ELSE /\ fs' = [fs EXCEPT ![p] = File0]
                    /\ removed' = removed + 1
    /\ idx' = idx + 1
    /\ Goto("grandchild", "cleanup_lstat")
    /\ Did("grandchild", {"unlink"})
    /\ UNCHANGED <<apartVars, mainVars, log, findVars, cmdline, artifacts, st, procs>>

\* CleanupUnlink with the try around the loop: a failure ends the loop
CleanupUnlink_stops ==
    /\ pc["grandchild"] = "cleanup_unlink"
    /\ LET p  == artifacts[idx]
           at == FileAt(p)
       IN \E err \in (IF at.kind \in {"missing", "dir"} THEN {TRUE} ELSE BOOLEAN) :
            /\ seen' = [seen EXCEPT ![Len(seen)] =
                          [@ EXCEPT !.atUnlink = at,
                                    !.unlinked = IF err THEN "err" ELSE "yes"]]
            /\ IF err
               THEN UNCHANGED <<fs, removed>> /\ idx' = Len(artifacts) + 1
               ELSE /\ fs' = [fs EXCEPT ![p] = Missing]
                    /\ removed' = removed + 1
                    /\ idx' = idx + 1
    /\ Goto("grandchild", "cleanup_lstat")
    /\ Did("grandchild", {"unlink"})
    /\ UNCHANGED <<apartVars, mainVars, log, findVars, cmdline, artifacts, st, procs>>

\* p.unlink(); removed += 1.  unlink fails on a path that is gone or is a
\* directory by now, and may fail with another OSError (no write permission
\* on the directory)
CleanupUnlink ==
    /\ pc["grandchild"] = "cleanup_unlink"
    /\ LET p  == artifacts[idx]
           at == FileAt(p)
       IN \E err \in (IF at.kind \in {"missing", "dir"} THEN {TRUE} ELSE BOOLEAN) :
            /\ seen' = [seen EXCEPT ![Len(seen)] =
                          [@ EXCEPT !.atUnlink = at,
                                    !.unlinked = IF err THEN "err" ELSE "yes"]]
            /\ IF err
               THEN UNCHANGED <<fs, removed>>
               ELSE /\ fs' = [fs EXCEPT ![p] = Missing]
                    /\ removed' = removed + 1
    /\ idx' = idx + 1
    /\ Goto("grandchild", "cleanup_lstat")
    /\ Did("grandchild", {"unlink"})
    /\ UNCHANGED <<apartVars, mainVars, log, findVars, cmdline, artifacts, st, procs>>

\* return removed; monitor logs the count and main ends
CleanupReturn ==
    /\ pc["grandchild"] = "cleanup_lstat"
    /\ idx > Len(artifacts)
    /\ log' = Append(log, LogRec("info", "cleanup", <<removed, Len(artifacts)>>))
    /\ Exit("grandchild", 0)
    /\ Did("grandchild", {"log"})
    /\ UNCHANGED <<apartVars, mainVars, findVars, cmdline, artifacts, cleanVars,
                   procs, fs>>

(***************************************************************************)
(* The evaluation runner (runner.py).  A message of the SDK stream is a    *)
(* tuple whose first element is its class; an assistant message carries    *)
(* its content blocks, a system message the "skills" entry of its data and *)
(* a result message its subtype.                                           *)
(***************************************************************************)
\* the skill_name argument of run_evaluation
SKILL_NAME == "pdf"

TextBlock          == <<"TextBlock">>
ToolUseBlock(name) == <<"ToolUseBlock", name>>

AssistantMessage(content) == <<"AssistantMessage", content>>
SystemMessage(skills)     == <<"SystemMessage", skills>>
ResultMessage(subtype)    == <<"ResultMessage", subtype>>

isinstance(message, class) == message[1] = class

\* message.data.get("skills", [])
data_skills(message) == IF message[2] = Absent THEN <<>> ELSE message[2][2]

\* ResponseStreamSkillActivationChecker._contains_skill_tool_call, over the
\* content blocks from the first on
RECURSIVE contains_skill_blocks(_)
contains_skill_blocks(blocks) ==
    IF blocks = <<>> THEN FALSE
    ELSE IF Head(blocks)[1] = "ToolUseBlock" /\ Head(blocks)[2] = "Skill" THEN TRUE
    ELSE contains_skill_blocks(Tail(blocks))

contains_skill_tool_call(message) == contains_skill_blocks(message[2])

\* what the SDK stream can produce
StreamMessages ==
    { AssistantMessage(<<TextBlock, ToolUseBlock("Bash")>>),
      AssistantMessage(<<TextBlock, ToolUseBlock("Skill")>>),
      SystemMessage(JList(<<SKILL_NAME>>)),
      SystemMessage(Absent),
      ResultMessage("success"),
      ResultMessage("error_max_turns"),
      ResultMessage("error_during_execution") }

\* at most this many messages before the stream ends
MaxMessages == 6

\* timeout_turns=5 in run_evaluation
TIMEOUT_TURNS == 5

\* StreamNext without `and not self._timed_out`
StreamNext_unlatched ==
    /\ evalpc = "receiving"
    /\ \/ \E message \in StreamMessages :
            /\ Len(pulled) < MaxMessages
            /\ pulled # <<>> => ~isinstance(pulled[Len(pulled)], "ResultMessage")
            /\ pulled' = Append(pulled, message)
            /\ jsonl' = IF output_file THEN jsonl + 1 ELSE jsonl
            /\ LET assistant == isinstance(message, "AssistantMessage")
                   count     == IF assistant THEN turn_count + 1 ELSE turn_count
                   skill     == assistant /\ contains_skill_tool_call(message)
                   expire    == /\ assistant /\ ~skill
                                /\ ~skill_activated
                                /\ count >= timeout_turns
               IN /\ turn_count' = count
                  /\ skill_activated' = (skill_activated \/ skill)
                  /\ timed_out' = (timed_out \/ expire)
                  /\ interrupts' = IF expire /\ interrupt
                                   THEN Append(interrupts, "checker")
                                   ELSE interrupts
            /\ yielded' = Append(yielded, message)
            /\ evalpc' = "loop_body"
       \/ /\ evalpc' = "stopped"                       \* StopAsyncIteration
          /\ UNCHANGED <<jsonl, turn_count, skill_activated, timed_out,
                         pulled, yielded, interrupts>>
    /\ UNCHANGED <<other, selfVars, fs, output_file, timeout_turns, interrupt,
                   executed_successfully, returned>>

\* one `await stream.__anext__()` through the middleware: the logger pulls
\* the next message from the SDK and writes it when a file was asked for,
\* the checker counts it and may interrupt, and the message is handed on.
\* receive_response ends after a result message, and may end before one.
StreamNext ==
    /\ evalpc = "receiving"
    /\ \/ \E message \in StreamMessages :
            /\ Len(pulled) < MaxMessages
            /\ pulled # <<>> => ~isinstance(pulled[Len(pulled)], "ResultMessage")
            /\ pulled' = Append(pulled, message)
            /\ jsonl' = IF output_file THEN jsonl + 1 ELSE jsonl
            /\ LET assistant == isinstance(message, "AssistantMessage")
                   count     == IF assistant THEN turn_count + 1 ELSE turn_count
                   skill     == assistant /\ contains_skill_tool_call(message)
                   expire    == /\ assistant /\ ~skill
                                /\ ~skill_activated
                                /\ count >= timeout_turns
                                /\ ~timed_out
               IN /\ turn_count' = count
                  /\ skill_activated' = (skill_activated \/ skill)
                  /\ timed_out' = (timed_out \/ expire)
                  /\ interrupts' = IF expire /\ interrupt
                                   THEN Append(interrupts, "checker")
                                   ELSE interrupts
            /\ yielded' = Append(yielded, message)
            /\ evalpc' = "loop_body"
       \/ /\ evalpc' = "stopped"                       \* StopAsyncIteration
          /\ UNCHANGED <<jsonl, turn_count, skill_activated, timed_out,
                         pulled, yielded, interrupts>>
    /\ UNCHANGED <<other, selfVars, fs, output_file, timeout_turns, interrupt,
                   executed_successfully, returned>>

\* the body of `async for message in stream` in run_evaluation
LoopBody ==
    /\ evalpc = "loop_body"
    /\ LET message == yielded[Len(yielded)]
       IN IF isinstance(message, "SystemMessage")
          THEN IF \A k \in 1..Len(data_skills(message)) :
                      data_skills(message)[k] # SKILL_NAME
               THEN /\ executed_successfully' = FALSE
                    /\ interrupts' = Append(interrupts, "run_evaluation")
               ELSE UNCHANGED <<executed_successfully, interrupts>>
          ELSE IF isinstance(message, "ResultMessage")
          THEN /\ executed_successfully' = (message[2] # "error_during_execution")
               /\ UNCHANGED interrupts
          ELSE UNCHANGED <<executed_successfully, interrupts>>
    /\ evalpc' = "receiving"
    /\ UNCHANGED <<other, selfVars, fs, output_file, jsonl, timeout_turns,
                   interrupt, turn_count, skill_activated, timed_out, returned,
                   pulled, yielded>>

\* return executed_successfully
EvalReturn ==
    /\ evalpc = "stopped"
    /\ returned' = <<executed_successfully>>
    /\ evalpc' = "returned"
    /\ UNCHANGED <<other, selfVars, fs, output_file, jsonl, timeout_turns,
                   interrupt, turn_count, skill_activated, timed_out,
                   executed_successfully, pulled, yielded, interrupts>>

\* a consumer of the checker that only iterates
Consume ==
    /\ evalpc = "loop_body"
    /\ evalpc' = "receiving"
    /\ UNCHANGED <<other, selfVars, fs, output_file, jsonl, timeout_turns,
                   interrupt, turn_count, skill_activated, timed_out,
                   executed_successfully, returned, pulled, yielded, interrupts>>

(***************************************************************************)
(* A second monitor, started by another invocation of the hook, running    *)
(* cleanup_artifacts on its own list while this one runs it.  Its locals   *)
(* are the fields of `other`; `before` is the filesystem the two began     *)
(* with.                                                                   *)
(***************************************************************************)
NoOther ==
    [pc |-> "none", artifacts |-> <<>>, idx |-> 1, st |-> Missing,
     removed |-> 0, seen |-> <<>>, before |-> <<>>]

OtherAt(arts, files) ==
    [pc |-> "cleanup_lstat", artifacts |-> arts, idx |-> 1, st |-> Missing,
     removed |-> 0, seen |-> <<>>, before |-> files]

\* st = p.lstat() and the test on it, in the second monitor
OtherLstat ==
    /\ other.pc = "cleanup_lstat"
    /\ other.idx <= Len(other.artifacts)
    /\ LET p  == other.artifacts[other.idx]
           at == FileAt(p)
       IN \E err \in (IF at = Missing THEN {TRUE} ELSE BOOLEAN) :
            other' = [other EXCEPT
                        !.seen = Append(@, Seen(p, at, ~err)),
                        !.st   = IF err THEN @ ELSE at,
                        !.pc   = IF ~err /\ is_placeholder(at)
                                 THEN "cleanup_unlink" ELSE "cleanup_lstat",
                        !.idx  = IF ~err /\ is_placeholder(at) THEN @ ELSE @ + 1]
    /\ UNCHANGED <<selfVars, evalVars, fs>>

\* p.unlink(); removed += 1, in the second monitor
OtherUnlink ==
    /\ other.pc = "cleanup_unlink"
    /\ LET p  == other.artifacts[other.idx]
           at == FileAt(p)
       IN \E err \in (IF at.kind \in {"missing", "dir"} THEN {TRUE} ELSE BOOLEAN) :
            /\ other' = [other EXCEPT
                           !.seen[Len(other.seen)] =
                               [@ EXCEPT !.atUnlink = at,
                                         !.unlinked = IF err THEN "err" ELSE "yes"],
                           !.removed = IF err THEN @ ELSE @ + 1,
                           !.idx = @ + 1,
                           !.pc  = "cleanup_lstat"]
            /\ IF err THEN UNCHANGED fs ELSE fs' = [fs EXCEPT ![p] = Missing]
    /\ UNCHANGED <<selfVars, evalVars>>

\* return removed, in the second monitor
OtherReturn ==
    /\ other.pc = "cleanup_lstat"
    /\ other.idx > Len(other.artifacts)
    /\ other' = [other EXCEPT !.pc = "returned"]
    /\ UNCHANGED <<selfVars, evalVars, fs>>

(***************************************************************************)
(* The environment: the other processes of the machine and the clock.      *)
(* The invocation cannot tell when between two of its reads a change was   *)
(* made, so the changes are made where the next read can see them: the     *)
(* process table changes while a process of the invocation is about to     *)
(* read it or use what it read from it (the snapshot, the scan, the        *)
(* extraction, the exit wait), the filesystem while                        *)
(* the monitor waits or cleans up, the clock during the scan.              *)
(***************************************************************************)
ProcTableWatched ==
    \/ pc["original"] = "main_snapshot"
    \/ pc["grandchild"] \in {"find_bwrap_child", "find_while", "find_children",
                              "find_for", "monitor_parse", "wait"}

FsWatched == pc["grandchild"] \in {"wait", "cleanup_lstat", "cleanup_unlink"}

progVars == <<apartVars, pc, exitCode, did, mainVars, log, cands, result, cmdline,
              artifacts, cleanVars>>

\* claude starts a child
Spawn ==
    /\ ProcTableWatched
    /\ \E pid \in PIDS, c \in Cmdlines :
        /\ procs[pid].st = "none"
        /\ procs' = [procs EXCEPT ![pid] = Running(c)]
        /\ appeared' = Appearance(appeared, procs', InCall, now < deadline)
    /\ UNCHANGED <<progVars, now, deadline, fs>>

\* a child replaces its image
Exec ==
    /\ ProcTableWatched
    /\ \E pid \in PIDS, c \in Cmdlines :
        /\ procs[pid].st = "running"
        /\ procs[pid].cl # c
        /\ procs' = [procs EXCEPT ![pid] = Running(c)]
        /\ appeared' = Appearance(appeared, procs', InCall, now < deadline)
    /\ UNCHANGED <<progVars, now, deadline, fs>>

\* a child exits and stays in the table as a zombie
ChildExit ==
    /\ ProcTableWatched
    /\ \E pid \in PIDS :
        /\ procs[pid].st = "running"
        /\ procs' = [procs EXCEPT ![pid] = Zombie]
    /\ UNCHANGED <<progVars, now, deadline, appeared, fs>>

\* claude reaps a zombie: the pid leaves the table and is free for reuse
Reap ==
    /\ ProcTableWatched
    /\ \E pid \in PIDS :
        /\ procs[pid].st = "zombie"
        /\ procs' = [procs EXCEPT ![pid] = NoProc]
    /\ UNCHANGED <<progVars, now, deadline, appeared, fs>>

\* some process creates an empty file, as bwrap does for a bind target
EnvCreate ==
    /\ FsWatched
    /\ \E p \in FsPaths :
        /\ fs[p] = Missing
        /\ fs' = [fs EXCEPT ![p] = File0]
    /\ UNCHANGED <<progVars, now, deadline, appeared, procs>>

\* some process writes to a path, creating the file if need be
EnvWrite ==
    /\ FsWatched
    /\ \E p \in FsPaths :
        /\ fs[p] \in {Missing, File0}
        /\ fs' = [fs EXCEPT ![p] = File1]
    /\ UNCHANGED <<progVars, now, deadline, appeared, procs>>

\* a second passes while find_bwrap_child is scanning
Tick ==
    /\ pc["grandchild"] \in {"find_while", "find_children", "find_for"}
    /\ now < deadline
    /\ now' = now + 1
    /\ UNCHANGED <<progVars, deadline, appeared, procs, fs>>

(***************************************************************************)
(* The whole invocation.                                                   *)
(***************************************************************************)
\* no evaluation is running
NoEvaluation ==
    /\ evalpc = "idle"
    /\ output_file = FALSE
    /\ jsonl = 0
    /\ timeout_turns = 0
    /\ interrupt = FALSE
    /\ turn_count = 0
    /\ skill_activated = FALSE
    /\ timed_out = FALSE
    /\ executed_successfully = TRUE
    /\ returned = None
    /\ pulled = <<>>
    /\ yielded = <<>>
    /\ interrupts = <<>>

\* the state in which the grandchild is at `label` with the given locals,
\* process table and filesystem
MonitorAt(origin, label, cmd, par, excl, res, cl, arts, table, files) ==
    /\ pc = [p \in Procs |-> IF p = "grandchild" THEN label ELSE origin]
    /\ exitCode = [p \in Procs |-> IF pc[p] = "exited" THEN 0 ELSE -1]
    /\ did = {}
    /\ hook_input = None
    /\ settings = <<>>
    /\ enabled = JBool(FALSE)
    /\ command = cmd
    /\ ppid = par
    /\ existing = excl
    /\ log = <<>>
    /\ now = 0
    /\ deadline = 0
    /\ cands = {}
    /\ result = res
    /\ cmdline = cl
    /\ artifacts = arts
    /\ idx = 1
    /\ st = Missing
    /\ removed = 0
    /\ seen = <<>>
    /\ appeared = "no"
    /\ procs = table
    /\ fs = files

\* that state, with no second monitor and no evaluation beside it
StateAt(origin, label, cmd, par, excl, res, cl, arts, table, files) ==
    /\ MonitorAt(origin, label, cmd, par, excl, res, cl, arts, table, files)
    /\ other = NoOther
    /\ NoEvaluation

NoChildren == [pid \in PIDS |-> NoProc]
NoFiles    == [p \in FsPaths |-> Missing]

\* the hook has just been started: nothing read, nobody forked
Init ==
    /\ pc = [p \in Procs |-> IF p = "original" THEN "main" ELSE "unborn"]
    /\ exitCode = [p \in Procs |-> -1]
    /\ did = {}
    /\ hook_input = None
    /\ settings = <<>>
    /\ enabled = JBool(FALSE)
    /\ command = JStr(<<>>)
    /\ ppid = None
    /\ existing = {}
    /\ log = <<>>
    /\ now = 0
    /\ deadline = 0
    /\ cands = {}
    /\ result = None
    /\ cmdline = <<>>
    /\ artifacts = <<>>
    /\ idx = 1
    /\ st = Missing
    /\ removed = 0
    /\ seen = <<>>
    /\ appeared = "no"
    /\ procs = NoChildren
    /\ fs = NoFiles
    /\ other = NoOther
    /\ NoEvaluation

Next ==
    \/ MainReadInput \/ MainCheckEnabled \/ MainCommand \/ MainGetPpid
    \/ MainSnapshot \/ DaemonizeFork1 \/ DaemonizeFork2 \/ DaemonStart
    \/ FindDeadline \/ FindWhile \/ FindChildren \/ FindFor
    \/ MonitorResult \/ MonitorParse \/ MonitorWait
    \/ CleanupLstat \/ CleanupUnlink \/ CleanupReturn
    \/ Spawn \/ Exec \/ ChildExit \/ Reap \/ EnvCreate \/ EnvWrite \/ Tick

Spec == Init /\ [][Next]_vars

\* the original process is scheduled until it exits
OriginalStep ==
    \/ MainReadInput \/ MainCheckEnabled \/ MainCommand \/ MainGetPpid
    \/ MainSnapshot \/ DaemonizeFork1

FairSpec == Spec /\ WF_vars(OriginalStep)

(***************************************************************************)
(* parse_artifacts on its own, over every argument vector of a bounded     *)
(* family: vectors shorter than four, and four-element vectors whose       *)
(* fourth element spells a list of tokens plainly, with every token in     *)
(* single quotes, with the whole text in double quotes, with the spaces    *)
(* escaped, or with a quotation left open.                                 *)
(***************************************************************************)
MaxTokens == 5

Tokens == {RO_BIND, DEV_NULL, TMP_X}

TokenLists == UNION {[1..n -> Tokens] : n \in 0..MaxTokens}

\* the tokens, each between a pair of q, with sep between two of them
RECURSIVE Render(_, _, _)
Render(toks, q, sep) ==
    IF toks = <<>> THEN <<>>
    ELSE q \o Head(toks) \o q \o
         (IF Len(toks) > 1 THEN sep \o Render(Tail(toks), q, sep) ELSE <<>>)

FourthElements ==
    UNION { { Render(t, <<>>, <<SP>>),
              Render(t, <<SQ>>, <<SP>>),
              <<DQ>> \o Render(t, <<>>, <<SP>>) \o <<DQ>>,
              Render(t, <<>>, <<BS, SP>>),
              Render(t, <<>>, <<SP>>) \o <<SP, SQ>> } : t \in TokenLists }

PATTERN == Render(<<RO_BIND, DEV_NULL, TMP_X>>, <<>>, <<SP>>)

ShortVectors == UNION {[1..n -> {<<"zsh">>, <<"-c">>, PATTERN}] : n \in 0..3}

ParseInputs ==
    ShortVectors \cup Cmdlines
    \cup { << <<"zsh">>, <<"-c">>, <<"-l">>, s >> : s \in FourthElements }

InitParse ==
    \E cl \in ParseInputs :
        StateAt("exited", "monitor_parse", JStr(ECHO_HI), <<CLAUDE_PID>>, {},
                None, cl, <<>>, NoChildren, NoFiles)

NextParse == MonitorParse

SpecParse == InitParse /\ [][NextParse]_vars

(***************************************************************************)
(* find_bwrap_child on its own, from every exclusion set and every process *)
(* table.  The scan is scheduled and the clock advances.                   *)
(***************************************************************************)
ProcStates == {NoProc, Zombie} \cup {Running(c) : c \in Cmdlines}

InitFind ==
    \E excl \in SUBSET PIDS, table \in [PIDS -> ProcStates] :
        StateAt("exited", "find_bwrap_child", JStr(ECHO_HI), <<CLAUDE_PID>>,
                excl, None, <<>>, <<>>, table, NoFiles)

FindStep == FindDeadline \/ FindWhile \/ FindChildren \/ FindFor

NextFind ==
    \/ FindDeadline \/ FindWhile \/ FindChildren \/ FindFor
    \/ Spawn \/ Exec \/ ChildExit \/ Reap \/ Tick

SpecFind == InitFind /\ [][NextFind]_vars /\ WF_vars(FindStep) /\ WF_vars(Tick)

(***************************************************************************)
(* cleanup_artifacts on its own, over every artifact list up to a length   *)
(* and every filesystem, with other processes writing meanwhile.           *)
(***************************************************************************)
MaxArtifacts == 2

ArtifactLists == UNION {[1..n -> FsPaths \cup {DEV_NULL}] : n \in 0..MaxArtifacts}

InitCleanup ==
    \E arts \in ArtifactLists, files \in [FsPaths -> FileStates] :
        StateAt("exited", "cleanup_lstat", JStr(ECHO_HI), <<CLAUDE_PID>>, {},
                None, <<>>, arts, NoChildren, files)

NextCleanup ==
    \/ CleanupLstat \/ CleanupUnlink \/ CleanupReturn
    \/ EnvCreate \/ EnvWrite

SpecCleanup == InitCleanup /\ [][NextCleanup]_vars

(***************************************************************************)
(* monitor from the return of find_bwrap_child on, for every argument      *)
(* vector the scan can return for the fragment "echo hi", whatever has      *)
(* become of the matched process since and whatever the filesystem holds.  *)
(* The monitor keeps polling: a step of it that is possible again and      *)
(* again is taken.  Nothing makes the matched process exit.                *)
(***************************************************************************)
\* [echo, hi]: the command run directly
CL_SHORT == << <<"echo">>, <<"hi">> >>
\* [zsh, -c, -l, "echo hi '"]: a quotation left open
CL_OPEN  == << <<"zsh">>, <<"-c">>, <<"-l">>, <<"echo", SP, "hi", SP, SQ>> >>

\* [zsh, -c, -l, "bwrap --ro-bind /dev/null /tmp/y echo hi"]: one placeholder
CL_ONE   ==
    << <<"zsh">>, <<"-c">>, <<"-l">>,
       <<"bwrap", SP, "--ro-bind", SP, "/dev/null", SP, "/tmp/y", SP,
         "echo", SP, "hi">> >>

MatchedVectors ==
    {cl \in Cmdlines \cup {CL_SHORT, CL_OPEN, CL_ONE} : matches(cl, JStr(ECHO_HI))}

MATCHED_PID == CLAUDE_PID + 1

InitMonitor ==
    \E cl \in MatchedVectors, table \in [PIDS -> ProcStates],
       files \in [FsPaths -> {Missing, File0, File1}] :
      \E m \in ProcStates \cup {Running(cl)} :
        StateAt("exited", "monitor_parse", JStr(ECHO_HI), <<CLAUDE_PID>>, {},
                <<MATCHED_PID, cl>>, cl, <<>>,
                [table EXCEPT ![MATCHED_PID] = m], files)

MonitorStep ==
    \/ MonitorParse \/ MonitorWait
    \/ CleanupLstat \/ CleanupUnlink \/ CleanupReturn

NextMonitor ==
    \/ MonitorParse \/ MonitorWait
    \/ CleanupLstat \/ CleanupUnlink \/ CleanupReturn
    \/ Spawn \/ Exec \/ ChildExit \/ Reap \/ EnvCreate \/ EnvWrite

SpecMonitor == InitMonitor /\ [][NextMonitor]_vars /\ SF_vars(MonitorStep)

(***************************************************************************)
(* cleanup_artifacts called a second time on the same list once the first  *)
(* call has returned, with no other process touching the filesystem.       *)
(***************************************************************************)
\* removed = 0 and the for loop from the first artifact, again
CleanupAgain ==
    /\ pc["grandchild"] = "cleanup_lstat"
    /\ idx > Len(artifacts)
    /\ <<"grandchild", "cleanup_again">> \notin did
    /\ idx' = 1
    /\ removed' = 0
    /\ Did("grandchild", {"cleanup_again"})
    /\ UNCHANGED <<apartVars, pc, exitCode, mainVars, log, findVars, cmdline, artifacts,
                   st, seen, procs, fs>>

NextTwice ==
    \/ CleanupLstat \/ CleanupUnlink \/ CleanupAgain \/ CleanupReturn

SpecTwice == InitCleanup /\ [][NextTwice]_vars

(***************************************************************************)
(* Two monitors running cleanup_artifacts at once, over every pair of      *)
(* lists of the paths a sandbox leaves placeholders at, and nothing else   *)
(* touching the filesystem.                                                *)
(***************************************************************************)
PairLists  == UNION {[1..n -> FsPaths] : n \in 0..MaxArtifacts}
PairStates == {Missing, File0, File1, Dir}

InitPair ==
    \E arts \in PairLists, arts2 \in PairLists, files \in [FsPaths -> PairStates] :
        /\ MonitorAt("exited", "cleanup_lstat", JStr(ECHO_HI), <<CLAUDE_PID>>, {},
                     None, <<>>, arts, NoChildren, files)
        /\ other = OtherAt(arts2, files)
        /\ NoEvaluation

NextPair ==
    \/ CleanupLstat \/ CleanupUnlink \/ CleanupReturn
    \/ OtherLstat \/ OtherUnlink \/ OtherReturn

SpecPair == InitPair /\ [][NextPair]_vars

(***************************************************************************)
(* run_evaluation from the first message of the response on, over every    *)
(* stream of at most MaxMessages messages.                                 *)
(***************************************************************************)
\* no hook is running
NoHook ==
    MonitorAt("exited", "exited", JStr(<<>>), None, {}, None, <<>>, <<>>,
              NoChildren, NoFiles)

\* the checker has been built around the stream with the given arguments
CheckerAt(file, turns, callback) ==
    /\ evalpc = "receiving"
    /\ output_file = file
    /\ jsonl = 0
    /\ timeout_turns = turns
    /\ interrupt = callback
    /\ turn_count = 0
    /\ skill_activated = FALSE
    /\ timed_out = FALSE
    /\ executed_successfully = TRUE
    /\ returned = None
    /\ pulled = <<>>
    /\ yielded = <<>>
    /\ interrupts = <<>>

InitEval ==
    /\ NoHook
    /\ other = NoOther
    /\ \E file \in BOOLEAN : CheckerAt(file, TIMEOUT_TURNS, TRUE)

NextEval == StreamNext \/ LoopBody \/ EvalReturn

SpecEval == InitEval /\ [][NextEval]_vars

(***************************************************************************)
(* ResponseStreamSkillActivationChecker on its own, for every turn limit   *)
(* from 1 to MaxTurns, with and without an interrupt callback.             *)
(***************************************************************************)
MaxTurns == 3

InitChecker ==
    /\ NoHook
    /\ other = NoOther
    /\ \E turns \in 1..MaxTurns, callback \in BOOLEAN :
          CheckerAt(FALSE, turns, callback)

NextChecker == StreamNext \/ Consume

SpecChecker == InitChecker /\ [][NextChecker]_vars

(***************************************************************************)
(* Properties of parse_artifacts (SpecParse).                              *)
(***************************************************************************)
ParseDone == pc["grandchild"] # "monitor_parse"

Tokenizable == Len(cmdline) >= 4 /\ shlex_split(cmdline[4]) # <<>>

\* the tokens of the fourth element
Args == shlex_split(cmdline[4])[1]

\* the positions where the three-token pattern occurs
Occ(args) ==
    {i \in 1..(Len(args) - 2) : args[i] = RO_BIND /\ args[i + 1] = DEV_NULL}

\* the occurrences that count: an occurrence counts unless it overlaps an
\* earlier one that counts
Counted(args) ==
    CHOOSE S \in SUBSET Occ(args) :
        \A i \in Occ(args) : i \in S <=> ~(\E j \in S : j < i /\ i - j < 3)

\* the k-th member of a set of positions, from the left
Nth(S, k) == CHOOSE i \in S : Cardinality({j \in S : j <= i}) = k

\* C5: for a tokenizable fourth element, parse_artifacts returns one
\* artifact per counted occurrence of (--ro-bind, /dev/null, destination),
\* in left-to-right order, each the destination of its occurrence; an
\* occurrence that starts inside an earlier one (its flag is that one's
\* destination) is not counted.
C5_PatternsInOrder ==
    (ParseDone /\ Tokenizable) =>
        LET S == Counted(Args)
        IN /\ Len(artifacts) = Cardinality(S)
           /\ \A k \in 1..Len(artifacts) :
                artifacts[k] = Path(Args[Nth(S, k) + 2])

C5_Witness ==
    /\ ParseDone
    /\ Tokenizable
    /\ Cardinality(Occ(Args)) = 2
    /\ artifacts = <<RO_BIND>>

\* C6: an argument vector with fewer than four elements yields no artifact.
C6_ShortVectorEmpty ==
    (ParseDone /\ Len(cmdline) < 4) => artifacts = <<>>

C6_Witness ==
    /\ ParseDone
    /\ Len(cmdline) = 3
    /\ cmdline[3] = PATTERN
    /\ artifacts = <<>>

(***************************************************************************)
(* Properties of find_bwrap_child (SpecFind).                              *)
(***************************************************************************)
Returned == pc["grandchild"] = "find_return"

\* C3: the pid find_bwrap_child returns is never in the exclusion set.
C3_NeverExcluded ==
    result # None => result[1] \notin existing

C3_Witness ==
    /\ Returned
    /\ result # None
    /\ \E e \in existing :
        procs[e].st = "running" /\ matches(procs[e].cl, command)

\* C4 as stated: if no child the scan could return was in the table before
\* the deadline, find_bwrap_child returns None.
C4_NoneUnlessBeforeDeadline ==
    (Returned /\ appeared # "before") => result = None

\* C4, amended: find_bwrap_child always returns; it returns None only once
\* the deadline has been reached, and it does return None if no child the
\* scan could return was in the table at any time during the call.
C4_TerminatesNoneIfNoMatch ==
    /\ <>Returned
    /\ [](Returned /\ result = None => now >= deadline)
    /\ [](Returned /\ appeared = "no" => result = None)

C4_Witness ==
    /\ Returned
    /\ result = None
    /\ appeared = "no"
    /\ \E pid \in PIDS \ existing : procs[pid].st = "running"

(***************************************************************************)
(* Properties of cleanup_artifacts (SpecCleanup).                          *)
(***************************************************************************)
\* the k-th record of seen is final
Settled(k) == k < Len(seen) \/ pc["grandchild"] # "cleanup_unlink"

EmptyRegular(f) == f.kind = "file" /\ f.size = 0

\* C1 as stated: an artifact is deleted if and only if, when cleanup
\* reaches it, the path holds a regular file of size zero.
C1_DeletedIffEmptyRegular ==
    \A k \in 1..Len(seen) :
        Settled(k) => (seen[k].unlinked = "yes" <=> EmptyRegular(seen[k].at))

\* C1, amended: unlink is called on an artifact if and only if its lstat
\* returned and reported a regular file of size zero, and the artifact is
\* deleted only by that unlink; a non-empty file and a missing path are
\* never unlinked, a failing lstat or unlink leaves the path alone, no
\* error leaves cleanup, and removed counts the deletions.
C1_UnlinkIffLstatEmptyRegular ==
    /\ \A k \in 1..Len(seen) :
        Settled(k) =>
            /\ seen[k].unlinked # "no" <=> (seen[k].statok /\ EmptyRegular(seen[k].at))
            /\ (seen[k].at.kind = "file" /\ seen[k].at.size > 0) => seen[k].unlinked = "no"
            /\ seen[k].at = Missing => (~seen[k].statok /\ seen[k].unlinked = "no")
    /\ pc["grandchild"] # "cleanup_unlink" =>
            removed = Cardinality({k \in 1..Len(seen) : seen[k].unlinked = "yes"})
    /\ exitCode["grandchild"] \in {-1, 0}
    /\ pc["grandchild"] = "exited" => Len(seen) = Len(artifacts)

C1_Witness ==
    /\ pc["grandchild"] = "exited"
    /\ Len(seen) = 2
    /\ seen[1].at = File1 /\ seen[1].unlinked = "no"
    /\ seen[2].unlinked = "yes"
    /\ removed = 1

\* C2: whatever is unlinked is, at the moment of the unlink, a regular
\* file of size zero.
C2_EmptyAtDeletion ==
    \A k \in 1..Len(seen) :
        seen[k].unlinked = "yes" => EmptyRegular(seen[k].atUnlink)

(***************************************************************************)
(* Properties of the whole invocation (Spec, FairSpec).                    *)
(***************************************************************************)
\* the positions of the detached instance
DaemonLabels ==
    {"daemonize_redirect", "find_bwrap_child", "find_while", "find_children",
     "find_for", "find_return", "monitor_parse", "wait", "cleanup_lstat",
     "cleanup_unlink"}

\* what matching, waiting and cleanup do
MonitorOps == {"clock", "get_cmdline", "pid_alive", "lstat", "unlink", "log"}

ReturnedTrue == {p \in Procs : <<p, "daemonize_true">> \in did}

\* C7: daemonize returns True in the grandchild alone; the original and the
\* intermediate have exited by the time the grandchild runs and never match,
\* wait or clean up.
C7_OnlyGrandchildContinues ==
    /\ ReturnedTrue \subseteq {"grandchild"}
    /\ \A p \in {"original", "intermediate"} :
        /\ pc[p] \notin DaemonLabels
        /\ \A op \in MonitorOps : <<p, op>> \notin did
    /\ pc["grandchild"] # "unborn" =>
        (pc["original"] = "exited" /\ pc["intermediate"] = "exited")
    /\ pc["grandchild"] \notin {"unborn", "daemonize_redirect"} =>
        ReturnedTrue = {"grandchild"}

C7_Witness ==
    /\ pc["grandchild"] = "wait"
    /\ pc["original"] = "exited"
    /\ pc["intermediate"] = "exited"
    /\ <<"original", "daemonize_false">> \in did
    /\ ReturnedTrue = {"grandchild"}

\* what the original process may do before it exits
OriginalOps ==
    {"read_input", "read_settings", "get_ppid", "get_children", "fork",
     "daemonize_false"}

\* C8: the original process always exits, having done nothing but read its
\* input, check the capability, look up its parent, take the snapshot and
\* fork; it is gone before the detached instance starts, whether or not
\* the sandboxed process ever appears or exits.
C8_OriginalExits ==
    /\ <>(pc["original"] = "exited")
    /\ [](\A op \in MonitorOps \cup {"setsid"} : <<"original", op>> \notin did)
    /\ [](\A e \in did : e[1] = "original" => e[2] \in OriginalOps)
    /\ [](pc["intermediate"] # "unborn" => pc["original"] = "exited")

C8_Witness ==
    /\ pc["original"] = "exited"
    /\ pc["grandchild"] = "wait"
    /\ pid_alive(result[1])
    /\ <<"grandchild", "pid_alive">> \in did

Finished == pc["grandchild"] = "exited"

\* the monitor matched a child whose captured argument vector has four
\* elements, the fourth tokenizable
MatchedFour == result # None /\ cmdline = result[2] /\ Len(cmdline) = 4 /\ Tokenizable

\* the number of placeholder patterns among the tokens
K == Cardinality(Counted(Args))

Deleted == {k \in 1..Len(seen) : seen[k].unlinked = "yes"}

\* C9 as stated: after a four-element match with k patterns the monitor
\* has deleted exactly the tracked paths that were empty regular files when
\* cleanup reached them and has logged removed/tracked with tracked = k.
C9_EndToEndCounts ==
    (Finished /\ MatchedFour) =>
        /\ Len(seen) = K
        /\ log[Len(log)] = LogRec("info", "cleanup", <<Cardinality(Deleted), K>>)
        /\ \A k \in 1..Len(seen) :
            seen[k].unlinked = "yes" <=> EmptyRegular(seen[k].at)

\* C9, amended: after a four-element match with k >= 1 patterns, of a
\* child outside the snapshot, the monitor has seen that child gone, has
\* gone through the k tracked paths in order, has unlinked exactly those
\* whose lstat returned an empty regular file, and has logged
\* removed/tracked with tracked = k and removed = the unlinks that succeeded.
C9_EndToEndCountsOnSuccess ==
    (Finished /\ MatchedFour /\ K >= 1) =>
        /\ result[1] \notin existing
        /\ matches(cmdline, command)
        /\ <<"grandchild", "saw_exit">> \in did
        /\ Len(artifacts) = K
        /\ Len(seen) = K
        /\ \A k \in 1..Len(seen) :
            /\ seen[k].path = artifacts[k]
            /\ seen[k].unlinked # "no" <=> (seen[k].statok /\ EmptyRegular(seen[k].at))
        /\ log[Len(log)] = LogRec("info", "cleanup", <<Cardinality(Deleted), K>>)

C9_Witness ==
    /\ Finished
    /\ cmdline = CL_ZSH
    /\ seen[1].path = TMP_X /\ seen[1].at = File1 /\ seen[1].unlinked = "no"
    /\ seen[2].path = TMP_Y /\ seen[2].unlinked = "yes"
    /\ log[Len(log)].args = <<1, 2>>

\* C10: once the capability has resolved to disabled the original process
\* has exited with status 0 and the invocation has read no process table,
\* forked nobody, logged nothing and deleted nothing.
C10_DisabledDoesNothing ==
    (<<"original", "read_settings">> \in did /\ ~Truthy(enabled)) =>
        /\ pc["original"] = "exited"
        /\ exitCode["original"] = 0
        /\ pc["intermediate"] = "unborn"
        /\ pc["grandchild"] = "unborn"
        /\ did = {<<"original", "read_input">>, <<"original", "read_settings">>}
        /\ log = <<>>
        /\ seen = <<>>
        /\ fs = NoFiles

C10_Witness ==
    /\ <<"original", "read_settings">> \in did
    /\ ~Truthy(enabled)
    /\ pc["original"] = "exited"

(***************************************************************************)
(* Properties of main's input handling and of is_sandbox_enabled (Spec).    *)
(***************************************************************************)
HasReadInput == <<"original", "read_input">> \in did

\* an input record that is absent, unparseable or not of the expected
\* structure: a non-object top level or a non-object tool_input
Malformed(inp) ==
    \/ inp = JSONDecodeError
    \/ ~IsObj(inp)
    \/ (HasKey(inp, "tool_input") /\ ~IsObj(inp[2]["tool_input"]))

\* C11: on an absent or malformed input record the invocation ends with
\* status 0 and without side effects: it never exits with another status,
\* forks nobody, logs nothing and stats or deletes nothing.
C11_MalformedExitsCleanly ==
    (HasReadInput /\ Malformed(hook_input)) =>
        /\ exitCode["original"] \in {-1, 0}
        /\ <<"original", "fork">> \notin did
        /\ pc["intermediate"] = "unborn"
        /\ pc["grandchild"] = "unborn"
        /\ log = <<>>
        /\ seen = <<>>

\* a source that defines the nested key sandbox.enabled
Defines(src) ==
    /\ IsObj(src)
    /\ HasKey(src, "sandbox")
    /\ IsObj(src[2]["sandbox"])
    /\ HasKey(src[2]["sandbox"], "enabled")

\* the value of the key in the last source that defines it, false if none does
LastDefined(srcs) ==
    LET D == {i \in 1..Len(srcs) : Defines(srcs[i])}
    IN IF D = {} THEN JBool(FALSE)
       ELSE srcs[CHOOSE i \in D : \A j \in D : j <= i][2]["sandbox"][2]["enabled"]

\* C12: whatever the settings files hold, is_sandbox_enabled returns, and
\* returns the value of sandbox.enabled in the last source that defines it
\* (false if none does); a source that is unreadable, unparseable or lacks
\* the key affects neither.
C12_LastDefiningSourceWins ==
    settings # <<>> =>
        /\ <<"original", "read_settings">> \in did
        /\ enabled = LastDefined(settings)

(***************************************************************************)
(* Properties of the order of a run (Spec).                                *)
(***************************************************************************)
\* the state of the run: 1 Start, 2 Snapshotting, 3 Detaching, 4 Matching,
\* 5 Tracking, 6 WaitingExit, 7 CleaningUp, 8 Done or Aborted
Phase ==
    IF pc["grandchild"] # "unborn" THEN
        CASE pc["grandchild"] = "daemonize_redirect" -> 3
          [] pc["grandchild"] \in {"find_bwrap_child", "find_while",
                                   "find_children", "find_for", "find_return"} -> 4
          [] pc["grandchild"] = "monitor_parse" -> 5
          [] pc["grandchild"] = "wait" -> 6
          [] pc["grandchild"] \in {"cleanup_lstat", "cleanup_unlink"} -> 7
          [] pc["grandchild"] = "exited" -> 8
    ELSE IF pc["intermediate"] # "unborn" THEN 3
    ELSE CASE pc["original"] \in {"main", "main_enabled", "main_command",
                                  "main_ppid"} -> 1
           [] pc["original"] = "main_snapshot" -> 2
           [] pc["original"] = "daemonize" -> 3
           [] pc["original"] = "exited" -> 8

Detached ==
    {<<"original", "get_children">>, <<"original", "fork">>,
     <<"intermediate", "setsid">>, <<"intermediate", "fork">>,
     <<"grandchild", "daemonize_true">>} \subseteq did

\* C13: a run goes through Start, Snapshotting, Detaching, Matching,
\* Tracking, WaitingExit, CleaningUp in that order, one at a time, unless it
\* is cut short by ending; the snapshot is written in Snapshotting only, so
\* once, before the detach and before any scan; each of the two forks is
\* done once, and no clock read, scan or exit poll happens before the
\* detach is complete.
C13_PhaseOrder ==
    /\ [][Phase' \in {Phase, Phase + 1, 8}]_vars
    /\ [][existing' # existing => Phase = 2 /\ Phase' = 3]_vars
    /\ [][\A p \in {"original", "intermediate"} :
            <<p, "fork">> \in did => pc'[p] = "exited" /\ pc[p] = "exited"]_vars
    /\ [](Phase \in 4..7 => Detached)
    /\ [](\A e \in did : e[2] \in MonitorOps => Detached)

C13_Witness ==
    /\ Phase = 8
    /\ Detached
    /\ <<"grandchild", "lstat">> \in did
    /\ existing # {}

\* the input record has no command fragment, or an empty one
FragmentMissing ==
    /\ HasReadInput
    /\ IsObj(hook_input)
    /\ \/ ~HasKey(hook_input, "tool_input")
       \/ /\ IsObj(hook_input[2]["tool_input"])
          /\ \/ ~HasKey(hook_input[2]["tool_input"], "command")
             \/ hook_input[2]["tool_input"][2]["command"] = JStr(<<>>)

\* main is past the look-up of the fragment
PastCommand == pc["original"] \notin {"main", "main_enabled", "main_command"}

ParentUnusable ==
    /\ <<"original", "get_ppid">> \in did
    /\ (ppid = None \/ ppid[1] <= 1)

\* the invocation has ended having done none of the operations in ops, with
\* nobody forked, nothing logged and nothing stat-ed or deleted
AbortedWithout(ops) ==
    /\ pc["original"] = "exited"
    /\ \A e \in did : e[2] \notin ops
    /\ pc["intermediate"] = "unborn"
    /\ pc["grandchild"] = "unborn"
    /\ log = <<>>
    /\ seen = <<>>

\* C14: with the fragment missing or empty the invocation ends without
\* looking up its parent, taking a snapshot, forking, logging or deleting;
\* with the parent id absent, 0 or 1 it ends with status 0 without taking
\* a snapshot, forking, logging or deleting.
C14_InvalidAborts ==
    /\ (PastCommand /\ FragmentMissing) =>
            AbortedWithout({"get_ppid", "get_children", "fork"})
    /\ ParentUnusable =>
            (AbortedWithout({"get_children", "fork"}) /\ exitCode["original"] = 0)

C14_Witness ==
    /\ PastCommand
    /\ hook_input = HookObj(ToolInput(JStr(<<>>)))
    /\ Truthy(enabled)
    /\ exitCode["original"] = 0

(***************************************************************************)
(* Properties of monitor (Spec).                                           *)
(***************************************************************************)
Timeout == LogRec("warning", "timeout", <<>>)

Logged(rec) == \E i \in 1..Len(log) : log[i] = rec

\* C15: when find_bwrap_child has returned None the next thing the monitor
\* does is log the timeout warning and end; a run that logged the warning
\* has ended with it as its last record and has never polled for an exit,
\* parsed artifacts, stat-ed or deleted anything.
C15_TimeoutWarnsAndStops ==
    /\ [][(Returned /\ result = None) =>
            (log' = Append(log, Timeout) /\ pc'["grandchild"] = "exited")]_vars
    /\ [](Logged(Timeout) =>
            /\ pc["grandchild"] = "exited"
            /\ log[Len(log)] = Timeout
            /\ \A op \in {"pid_alive", "lstat", "unlink"} :
                    <<"grandchild", op>> \notin did
            /\ artifacts = <<>>
            /\ seen = <<>>
            /\ fs = NoFiles)

C15_Witness ==
    /\ Logged(Timeout)
    /\ pc["grandchild"] = "exited"
    /\ \E pid \in PIDS \ existing : procs[pid] = Running(CL_LS)

\* extraction has nothing to yield: fewer than four elements, a fourth
\* element the tokenizer rejects, or no placeholder pattern among its tokens
NothingToTrack ==
    \/ Len(cmdline) < 4
    \/ shlex_split(cmdline[4]) = <<>>
    \/ Occ(Args) = {}

NoArtifacts == LogRec("info", "no artifacts", <<>>)

\* C16: when extraction has nothing to yield the monitor logs that there is
\* nothing to track and ends at once: it never polls the matched process,
\* alive or not, and never stats or deletes anything.
C16_NoArtifactsNoWait ==
    (ParseDone /\ NothingToTrack) =>
        /\ artifacts = <<>>
        /\ pc["grandchild"] = "exited"
        /\ log = <<NoArtifacts>>
        /\ \A op \in {"pid_alive", "lstat", "unlink"} :
                <<"grandchild", op>> \notin did
        /\ seen = <<>>

C16_Witness ==
    /\ ParseDone
    /\ cmdline = CL_OPEN
    /\ procs[result[1]] = Running(CL_OPEN)
    /\ pc["grandchild"] = "exited"

(***************************************************************************)
(* Properties of the exit wait (SpecMonitor).                              *)
(***************************************************************************)
SawExit == <<"grandchild", "saw_exit">> \in did

InCleanup == pc["grandchild"] \in {"cleanup_lstat", "cleanup_unlink"}

\* C17: the monitor enters cleanup only by a poll of the matched pid that
\* finds it not alive; whenever it is in cleanup, or has stat-ed or unlinked
\* anything, such a poll has happened.
C17_CleanupAfterExitSeen ==
    /\ [][(InCleanup' /\ ~InCleanup) =>
            (pc["grandchild"] = "wait" /\ ~pid_alive(result[1]))]_vars
    /\ []((InCleanup \/ seen # <<>>
            \/ <<"grandchild", "lstat">> \in did
            \/ <<"grandchild", "unlink">> \in did) => SawExit)

C17_Witness ==
    /\ <<"grandchild", "unlink">> \in did
    /\ <<"grandchild", "sleep">> \in did
    /\ SawExit
    /\ pc["grandchild"] = "exited"

Waiting == pc["grandchild"] = "wait"

\* the monitor has ended after a cleanup whose count it logged
CleanedUp ==
    /\ pc["grandchild"] = "exited"
    /\ log[Len(log)] = LogRec("info", "cleanup", <<removed, Len(artifacts)>>)

StaysWhileAlive ==
    [][(Waiting /\ pid_alive(result[1])) => Waiting']_vars

LstatFailed == Len(seen') > Len(seen) /\ ~seen'[Len(seen')].statok

UnlinkFailed ==
    /\ pc["grandchild"] = "cleanup_unlink"
    /\ pc'["grandchild"] # "cleanup_unlink"
    /\ seen'[Len(seen')].unlinked = "err"

\* the step left the filesystem and the count alone and went on to the
\* next artifact
Swallowed ==
    /\ fs' = fs
    /\ removed' = removed
    /\ idx' = idx + 1
    /\ pc'["grandchild"] = "cleanup_lstat"
    /\ exitCode' = exitCode

\* C19: an lstat or unlink that fails changes neither the filesystem nor
\* the count and is followed by the next artifact; when cleanup is over
\* every artifact of the list has been visited, in order, whatever failed
\* before it, and the count of the unlinks that succeeded has been
\* returned and logged.
C19_FailureSwallowed ==
    /\ [][LstatFailed => Swallowed]_vars
    /\ [][UnlinkFailed => Swallowed]_vars
    /\ [](pc["grandchild"] = "exited" =>
            /\ Len(seen) = Len(artifacts)
            /\ \A k \in 1..Len(seen) : seen[k].path = artifacts[k]
            /\ removed = Cardinality(Deleted)
            /\ CleanedUp
            /\ exitCode["grandchild"] = 0)

C19_Witness ==
    /\ pc["grandchild"] = "exited"
    /\ Len(seen) = 2
    /\ seen[1].unlinked = "err" /\ seen[1].atUnlink = File0
    /\ seen[2].unlinked = "yes"
    /\ FileAt(seen[1].path) = File0
    /\ removed = 1

(***************************************************************************)
(* Properties of reads of a process that has disappeared (Spec).           *)
(***************************************************************************)
\* the step just taken visited a candidate that had left the process table
\* since it was listed
VisitedGone ==
    /\ pc["grandchild"] = "find_for"
    /\ cands' # cands
    /\ \A pid \in cands \ cands' : procs[pid].st = "none"

\* the step just taken was the first poll of the exit wait and the matched
\* process was gone already
FirstPollGone ==
    /\ Waiting
    /\ <<"grandchild", "pid_alive">> \notin did
    /\ <<"grandchild", "pid_alive">> \in did'
    /\ ~pid_alive(result[1])

Crash == LogRec("error", "crash", <<>>)

\* C20: a candidate that left the table between the listing of the children
\* and the read of its arguments is skipped, the scan going on with the
\* other candidates; a matched process gone before the first poll of the
\* wait is taken as exited and cleanup starts; no exception is logged and
\* no process ends with an error status on account of either.
C20_DisappearanceTolerated ==
    /\ [][VisitedGone =>
            /\ pc'["grandchild"] = "find_for"
            /\ cands' \subseteq cands
            /\ UNCHANGED <<result, log, exitCode>>]_vars
    /\ [][FirstPollGone =>
            /\ pc'["grandchild"] = "cleanup_lstat"
            /\ log' = Append(log, LogRec("info", "exited", <<result[1]>>))
            /\ UNCHANGED exitCode]_vars
    /\ [](Logged(Crash) => ~IsStr(command))
    /\ [](exitCode["grandchild"] \in {-1, 0})

C20_Witness ==
    /\ CleanedUp
    /\ SawExit
    /\ <<"grandchild", "sleep">> \notin did
    /\ <<"grandchild", "unlink">> \in did

(***************************************************************************)
(* Properties of what find_bwrap_child returns and of its use (Spec).      *)
(***************************************************************************)
\* the candidates the step just taken visited
Visited == IF pc["grandchild"] = "find_for" THEN cands \ cands' ELSE {}

\* the test of the scan, on the table as it is
Passes(pid) ==
    /\ procs[pid].st = "running"
    /\ procs[pid].cl # <<>>
    /\ IsStr(command)
    /\ Contains(Join(procs[pid].cl), command[2])

\* C21: a result is set only by the visit of a candidate of the current
\* scan, which is a child outside the snapshot, and is that pid paired with
\* the argument vector read in that visit, non-empty and containing the
\* fragment once joined; a visited candidate that passes the test is
\* returned at once, so the result is the first to pass in visiting order;
\* the artifacts come from the captured vector whatever the process has
\* become since.
C21_FirstMatchCaptured ==
    /\ [](cands \cap existing = {})
    /\ [][result' # result =>
            /\ Visited = {result'[1]}
            /\ result'[1] \in get_children(CLAUDE_PID) \ existing
            /\ Passes(result'[1])
            /\ result'[2] = procs[result'[1]].cl
            /\ pc'["grandchild"] = "find_return"]_vars
    /\ [][\A pid \in Visited : Passes(pid) => result' = <<pid, procs[pid].cl>>]_vars
    /\ [](result # None /\ pc["grandchild"] \notin {"find_return", "monitor_parse"} =>
            /\ cmdline = result[2]
            /\ artifacts = parse_artifacts(result[2]))

C21_Witness ==
    /\ result # None
    /\ Waiting
    /\ procs[result[1]].st = "running"
    /\ procs[result[1]].cl # result[2]
    /\ artifacts # parse_artifacts(get_cmdline(result[1]))
    /\ <<"grandchild", "pid_alive">> \notin did

(***************************************************************************)
(* Properties of a repeated cleanup (SpecTwice).                           *)
(***************************************************************************)
Again == <<"grandchild", "cleanup_again">> \in did

\* the records of the first and of the second call
FirstRun  == 1..Len(artifacts)
SecondRun == {k \in 1..Len(seen) : k > Len(artifacts)}

\* the second call has returned
SecondDone == Again /\ pc["grandchild"] = "exited"

\* permissions are as they were: an operation that met the same file at
\* the same path in both calls failed in both or in neither
SameFailures ==
    \A i \in FirstRun, j \in SecondRun :
        (seen[i].path = seen[j].path /\ seen[i].at = seen[j].at) =>
            /\ seen[i].statok = seen[j].statok
            /\ (seen[i].unlinked = "err") = (seen[j].unlinked = "err")

\* C22: with nothing else changing the filesystem or its permissions, a
\* second call of cleanup_artifacts on the same list visits every artifact
\* again, deletes nothing and returns 0, and no step of it changes the
\* filesystem.
C22_SecondRunDeletesNothing ==
    /\ []((SecondDone /\ SameFailures) =>
            /\ Len(seen) = 2 * Len(artifacts)
            /\ \A j \in SecondRun : seen[j].unlinked # "yes"
            /\ removed = 0
            /\ log[Len(log)] = LogRec("info", "cleanup", <<0, Len(artifacts)>>))
    /\ [][(Again /\ fs' # fs) => ~SameFailures']_vars

C22_Witness ==
    /\ SecondDone
    /\ SameFailures
    /\ Len(artifacts) = 2
    /\ seen[1].unlinked = "yes"
    /\ seen[2].unlinked = "err"
    /\ seen[4].unlinked = "err"

(***************************************************************************)
(* Two monitors cleaning up at once (SpecPair).                            *)
(***************************************************************************)
Paired == other.pc # "none"

\* how many times a run whose history is `hist` removed the file at p
DeletedBy(hist, p) ==
    Cardinality({k \in 1..Len(hist) : hist[k].path = p /\ hist[k].unlinked = "yes"})

\* the files that were there when the two began and are there no more
Gone == {p \in FsPaths : other.before[p] # Missing /\ fs[p] = Missing}

BothReturned == Paired /\ pc["grandchild"] = "exited" /\ other.pc = "returned"

\* C23: when two monitors run cleanup_artifacts at once on lists that may
\* share paths, then under every interleaving of their lstat and unlink
\* steps neither of them fails (each can always take its next step until it
\* has returned, and this one exits with status 0), no file is removed more
\* than once, and the two removed counts add up to the number of files
\* that were removed.
C23_ConcurrentCleanups ==
    Paired =>
        /\ pc["grandchild"] # "exited"
              => ENABLED (CleanupLstat \/ CleanupUnlink \/ CleanupReturn)
        /\ other.pc # "returned"
              => ENABLED (OtherLstat \/ OtherUnlink \/ OtherReturn)
        /\ pc["grandchild"] = "exited" => exitCode["grandchild"] = 0
        /\ \A p \in FsPaths : DeletedBy(seen, p) + DeletedBy(other.seen, p) <= 1
        /\ removed + other.removed = Cardinality(Gone)

\* both saw the placeholder, the second monitor removed it, and this one's
\* unlink then found it gone
C23_Witness ==
    /\ BothReturned
    /\ \E j \in 1..Len(seen), k \in 1..Len(other.seen) :
          /\ seen[j].path = other.seen[k].path
          /\ seen[j].at = File0 /\ seen[j].statok
          /\ seen[j].atUnlink = Missing /\ seen[j].unlinked = "err"
          /\ other.seen[k].at = File0 /\ other.seen[k].unlinked = "yes"
    /\ removed + other.removed >= 1

(***************************************************************************)
(* Properties of the evaluation runner (SpecEval, SpecChecker).            *)
(***************************************************************************)
\* the run was interrupted, by the loop of run_evaluation or by the checker
Interrupted == interrupts # <<>>

HasReturned == evalpc = "returned"

\* C24: run_evaluation returns False whenever the run was interrupted, be it
\* because the skill was not loaded or because it was not activated within
\* the turn limit, whatever messages arrive afterwards.
C24_InterruptedReturnsFalse ==
    (HasReturned /\ Interrupted) => returned = <<FALSE>>

\* the number of assistant messages among the first n of the stream
RECURSIVE Assistants(_)
Assistants(n) ==
    IF n = 0 THEN 0
    ELSE Assistants(n - 1) + (IF pulled[n][1] = "AssistantMessage" THEN 1 ELSE 0)

\* an assistant message among the first n of the stream calls the Skill tool
SkillSeen(n) ==
    \E k \in 1..n :
        /\ pulled[k][1] = "AssistantMessage"
        /\ \E b \in 1..Len(pulled[k][2]) :
              pulled[k][2][b] = <<"ToolUseBlock", "Skill">>

Calls == Len(interrupts)

\* the message just pulled is the assistant message that brings the count
\* to the limit, and no assistant message up to it calls the Skill tool
LimitReached ==
    /\ Len(pulled') = Len(pulled) + 1
    /\ pulled'[Len(pulled')][1] = "AssistantMessage"
    /\ Assistants(Len(pulled))+ 1 = timeout_turns
    /\ ~SkillSeen(Len(pulled)) /\ ~contains_skill_tool_call(pulled'[Len(pulled')])

\* C25: over any stream, the checker calls interrupt at most once, never
\* once a Skill tool call has been seen, and (given a callback) exactly at
\* the assistant message that brings the count of assistant messages to
\* timeout_turns when no assistant message so far calls the Skill tool;
\* and every message of the parent stream is handed on unchanged and in
\* order.
C25_InterruptOnceAtLimit ==
    /\ [](Calls <= 1)
    /\ [][Calls' > Calls => ~SkillSeen(Len(pulled))]_vars
    /\ [][(Calls' > Calls) <=> (interrupt /\ LimitReached)]_vars
    /\ [](yielded = pulled)

\* the limit was 2, the checker interrupted once, and two more assistant
\* messages without a Skill call and a system message went through after
C25_Witness ==
    /\ timeout_turns = 2 /\ Calls = 1 /\ interrupt
    /\ Len(pulled) = 5 /\ yielded = pulled
    /\ Assistants(5) = 4 /\ ~SkillSeen(5)
    /\ Assistants(2) = 2

(***************************************************************************)
(* What a whole run of the monitor may touch (SpecMonitor).                *)
(***************************************************************************)
\* the paths parse_artifacts extracts from the matched argument vector
Tracked ==
    IF result = None THEN {}
    ELSE {parse_artifacts(result[2])[k] : k \in 1..Len(parse_artifacts(result[2]))}

\* a step of the invocation itself, as opposed to one of another process
OwnStep == progVars' # progVars

CleanupRecords == {i \in 1..Len(log) : log[i].msg = "cleanup"}

\* C26: across a whole run, a step of the monitor that changes the
\* filesystem is an unlink that removes one path of the list extracted from
\* the matched argument vector and leaves every other path as it was; and
\* the cleanup record it logs never shows more files removed than tracked.
C26_OnlyTrackedDeleted ==
    /\ [][(OwnStep /\ fs' # fs) =>
            /\ pc["grandchild"] = "cleanup_unlink"
            /\ \E p \in Tracked : fs' = [fs EXCEPT ![p] = Missing]]_vars
    /\ [](\A i \in CleanupRecords :
            /\ log[i].args[2] = Len(parse_artifacts(result[2]))
            /\ log[i].args[1] <= log[i].args[2])

\* the matched vector named /tmp/y alone; the run removed it and left the
\* empty file at /tmp/x where it was
C26_Witness ==
    /\ pc["grandchild"] = "exited"
    /\ Tracked = {TMP_Y}
    /\ CleanupRecords # {}
    /\ log[Len(log)].args = <<1, 1>>
    /\ seen[1].unlinked = "yes"
    /\ fs[TMP_Y] = Missing /\ fs[TMP_X] = File0
====
